---------------------------- MODULE Spec2Model ----------------------------
(***************************************************************************)
(* A model of the rednote-extract browser extension: the packaging of      *)
(* media into an archive (MediaDownloader.downloadAsZip), the feed-data    *)
(* cache and its durable store, the extraction chains and the message      *)
(* handlers of the content script and the background script.               *)
(*                                                                         *)
(* Each group of operations has its own specification over the same        *)
(* variables; the variables of the other groups stay as Init left them.    *)
(***************************************************************************)
EXTENDS Integers, Sequences, FiniteSets, TLC

Null == "null"

Range(s) == {s[i] : i \in 1..Len(s)}

---------------------------------------------------------------------------
(* The page location and the identifier resolver                           *)

\* A URL or a text is a sequence of tokens; s.includes(t) is "t is one of
\* the tokens of s".  A value the payload leaves out is Undefined.
Undefined == <<"undefined">>
Includes(s, tok) == \E i \in 1..Len(s) : s[i] = tok

\* A segment of window.location.pathname: its text and the longest prefix of
\* it made of the characters a-f0-9.
Seg(name, hex) == [name |-> name, hex |-> hex]

Pathnames ==
  { <<Seg("explore", "e"), Seg("a1", "a1")>>,       \* /explore/a1
    <<Seg("explore", "e"), Seg("a1x", "a1")>>,      \* /explore/a1x
    <<Seg("explore", "e"), Seg("zz", "")>>,         \* /explore/zz
    <<Seg("user", ""), Seg("b2", "b2")>>,           \* /user/b2
    <<>> }                                          \* /

\* pathname.match(/\/explore\/([a-f0-9]+)/): the hex run that follows the
\* first "/explore/" which has one.
ExploreHits(path) ==
  {i \in 1..(Len(path) - 1) : path[i].name = "explore" /\ path[i + 1].hex # ""}

extractNoteId(path) ==
  IF ExploreHits(path) = {} THEN Null
  ELSE LET i == CHOOSE k \in ExploreHits(path) : \A j \in ExploreHits(path) : k <= j
       IN  path[i + 1].hex

---------------------------------------------------------------------------
(* The feed payload (FeedApiResponse) and the payload normalizers          *)

Url(toks) == toks
Stream(url, w, h) == [master_url |-> url, width |-> w, height |-> h]
Info(scene, url) == [image_scene |-> scene, url |-> url]
Img(hasInfo, infos, dft) ==
  [hasInfo |-> hasInfo, info_list |-> infos, url_default |-> dft]
NoVideo == [present |-> FALSE, h264 |-> <<>>, h265 |-> <<>>]
Video(h264, h265) == [present |-> TRUE, h264 |-> h264, h265 |-> h265]

Card(id, title, desc, type, hasUser, nick, imgs, video) ==
  [note_id |-> id, title |-> title, desc |-> desc, type |-> type,
   hasUser |-> hasUser, nickname |-> nick, image_list |-> imgs, video |-> video]

NoCard == Card("", "", "", "normal", FALSE, "", <<>>, NoVideo)

Item(modelType, card) == [hasCard |-> TRUE, model_type |-> modelType, note_card |-> card]
BareItem == [hasCard |-> FALSE, model_type |-> "note", note_card |-> NoCard]

Feed(success, hasData, items) ==
  [success |-> success, hasData |-> hasData, items |-> items]

JpgUrl == Url(<<"https://sns-webpic-qc.xhscdn.com/", "p1", ".jpg", "?x=1">>)
PngUrl == Url(<<"https://sns-webpic-qc.xhscdn.com/", "p2", ".png">>)
PlainUrl == Url(<<"https://sns-webpic-qc.xhscdn.com/", "p3">>)
VidLo == Url(<<"https://v/", "lo", ".mp4", "?sign=s1&t=1">>)
VidHi == Url(<<"https://v/", "hi", ".mp4", "?sign=s2&t=2">>)
VidHi2 == Url(<<"https://v/", "hi2", ".mp4", "?sign=s3&t=3">>)
VidUhd == Url(<<"https://v/", "uhd265", ".mp4", "?sign=s4&t=4">>)

\* The items the payloads of the model are made of.
ImageNote ==
  Item("note", Card("a1", "Title", "some text", "normal", TRUE, "Nick",
       << Img(TRUE, <<Info("WB_PRV", PngUrl), Info("WB_DFT", JpgUrl)>>, PlainUrl),
          Img(TRUE, <<Info("WB_PRV", JpgUrl)>>, PngUrl) >>, NoVideo))
VideoNote ==
  Item("note", Card("a1", "Clip", "", "video", TRUE, "Nick", <<>>,
       Video(<<Stream(VidLo, 640, 360), Stream(VidHi, 1280, 720),
               Stream(VidHi2, 720, 1280)>>,
             <<Stream(VidUhd, 3840, 2160)>>)))
H265Note ==
  Item("note", Card("a1", "", "clip text", "video", TRUE, "",
       << Img(TRUE, <<Info("WB_DFT", <<>>)>>, PlainUrl) >>,
       Video(<<>>, <<Stream(VidLo, 640, 360), Stream(VidUhd, 3840, 2160)>>)))
OtherKind ==
  Item("ad", Card("a1", "Promo", "buy", "normal", TRUE, "Shop", <<>>, NoVideo))
OtherNote ==
  Item("note", Card("b2", "Other", "other text", "normal", TRUE, "Bob",
       << Img(TRUE, <<>>, JpgUrl) >>, NoVideo))
EmptyNote ==
  Item("note", Card("a1", "", "", "normal", TRUE, "", <<>>, NoVideo))
NoUserNote ==
  Item("note", Card("a1", "Title", "text", "normal", FALSE, "",
       << Img(FALSE, <<>>, JpgUrl) >>, NoVideo))

ItemPool ==
  {ImageNote, VideoNote, H265Note, OtherKind, OtherNote, EmptyNote, NoUserNote,
   BareItem}

\* The largest number of items of a payload.
MaxItems == 2

ItemLists == UNION {[1..n -> ItemPool] : n \in 1..MaxItems}

\* The payloads that pass the acceptance check of the listeners.
UsableFeeds == {Feed(TRUE, TRUE, items) : items \in ItemLists}

\* data.success && data.data?.items?.length > 0
UsableIfSuccess(feed) == feed.success
Usable(feed) == feed.success /\ feed.hasData /\ Len(feed.items) > 0

\* items.find((item) => item.note_card.note_id === id): the index of the
\* first match (0 when there is none); reading note_card.note_id of an item
\* that has no note_card is a TypeError.
MatchIdx(items, id) ==
  {i \in 1..Len(items) : items[i].hasCard /\ items[i].note_card.note_id = id}
BadIdx(items) == {i \in 1..Len(items) : ~items[i].hasCard}
MinOf(S) == CHOOSE k \in S : \A j \in S : k <= j
FirstMatch(items, id) == IF MatchIdx(items, id) = {} THEN 0 ELSE MinOf(MatchIdx(items, id))
FindThrows(items, id) ==
  /\ BadIdx(items) # {}
  /\ (FirstMatch(items, id) = 0 \/ MinOf(BadIdx(items)) < FirstMatch(items, id))

\* The texts of a NoteContent; "" is the empty string.
Untitled == "untitled"            \* the placeholder of title
UnknownAuthor == "unknown author" \* the placeholder of author
NoContent == "no content"         \* the placeholder of content
OrElseKeepsEmpty(text, placeholder) == text
OrElse(text, placeholder) == IF text = "" THEN placeholder ELSE text

NoteContent(title, author, content, url) ==
  [title |-> title, author |-> author, content |-> content, url |-> url]
NoNote == NoteContent("", "", "", "")

\* parseNoteContentFromFeed: [found, note]; every TypeError ends in the
\* catch, which returns null.
parseNoteContentFromFeed(feed, path, href) ==
  LET id == extractNoteId(path)
      m == FirstMatch(feed.items, id)
  IN  IF id = Null \/ ~feed.hasData \/ FindThrows(feed.items, id) \/ m = 0
        THEN [found |-> FALSE, note |-> NoNote]
      ELSE IF feed.items[m].model_type # "note"
        THEN [found |-> FALSE, note |-> NoNote]
      ELSE IF ~feed.items[m].note_card.hasUser
        THEN [found |-> FALSE, note |-> NoNote]
      ELSE LET c == feed.items[m].note_card
           IN  [found |-> TRUE,
                note |-> NoteContent(OrElse(c.title, Untitled),
                                     OrElse(c.nickname, UnknownAuthor),
                                     OrElse(c.desc, NoContent), href)]

MediaItem(url, type, filename) == [url |-> url, type |-> type, filename |-> filename]

\* filename of the i-th image and of the video, as parseMediaFromFeed and
\* extractMediaFromPageDOM name them.
ImageNameUnnumbered(i, ext) == "image." \o ext
ImageName(i, ext) == "image_" \o ToString(i) \o "." \o ext
VideoName == "video_1.mp4"

\* info_list.find((info) => info.image_scene === "WB_DFT")?.url || url_default
HighQualityUrlDefaultOnly(img) == img.url_default
HighQualityUrl(img) ==
  LET wb == {i \in 1..Len(img.info_list) : img.info_list[i].image_scene = "WB_DFT"}
      u == IF wb = {} THEN Undefined ELSE img.info_list[MinOf(wb)].url
  IN  IF u = Undefined \/ u = <<>> THEN img.url_default ELSE u

\* Lines 658-666: the extension of an image of the payload.
FeedExtension(url) ==
  IF Includes(url, ".jpg") \/ Includes(url, ".jpeg") THEN "jpg"
  ELSE IF Includes(url, ".png") THEN "png"
  ELSE "webp"

\* Reading info_list of an image without one, or calling includes on an
\* undefined url, is a TypeError.
ImagesThrow(card) ==
  \E i \in 1..Len(card.image_list) :
    \/ ~card.image_list[i].hasInfo
    \/ HighQualityUrl(card.image_list[i]) = Undefined

FeedImageItems(card) ==
  [i \in 1..Len(card.image_list) |->
     LET u == HighQualityUrl(card.image_list[i])
     IN  MediaItem(u, "image", ImageName(i, FeedExtension(u)))]

Area(st) == st.width * st.height

\* streams.sort((a, b) => b.width * b.height - a.width * a.height): a stable
\* sort, largest area first.
InsertByAreaTiesFirst(sorted, st) ==
  LET before == {i \in 1..Len(sorted) : Area(sorted[i]) > Area(st)}
      k == Cardinality(before)
  IN  SubSeq(sorted, 1, k) \o <<st>> \o SubSeq(sorted, k + 1, Len(sorted))
InsertByArea(sorted, st) ==
  LET before == {i \in 1..Len(sorted) : Area(sorted[i]) >= Area(st)}
      k == Cardinality(before)
  IN  SubSeq(sorted, 1, k) \o <<st>> \o SubSeq(sorted, k + 1, Len(sorted))

RECURSIVE SortByArea(_)
SortByArea(streams) ==
  IF streams = <<>> THEN <<>>
  ELSE InsertByArea(SortByArea(SubSeq(streams, 1, Len(streams) - 1)),
                    streams[Len(streams)])

\* Lines 676-710: the codec family the video is taken from.
VideoFamilyPrefersH265(card) ==
  IF ~(card.type = "video" /\ card.video.present) THEN "none"
  ELSE IF Len(card.video.h265) > 0 THEN "h265"
  ELSE IF Len(card.video.h264) > 0 THEN "h264"
  ELSE "none"
VideoFamily(card) ==
  IF ~(card.type = "video" /\ card.video.present) THEN "none"
  ELSE IF Len(card.video.h264) > 0 THEN "h264"
  ELSE IF Len(card.video.h265) > 0 THEN "h265"
  ELSE "none"

BestVideoUrl(card) ==
  CASE VideoFamily(card) = "h264" -> SortByArea(card.video.h264)[1].master_url
    [] VideoFamily(card) = "h265" -> SortByArea(card.video.h265)[1].master_url
    [] OTHER -> <<>>

FeedVideoItems(card) ==
  IF BestVideoUrl(card) = <<>> \/ BestVideoUrl(card) = Undefined THEN <<>>
  ELSE <<MediaItem(BestVideoUrl(card), "video", VideoName)>>

\* The note_card after parseMediaFromFeed went through it: sort() sorts the
\* stream list of the payload in place.
CardAfterParse(card) ==
  CASE VideoFamily(card) = "h264" ->
         [card EXCEPT !.video.h264 = SortByArea(card.video.h264)]
    [] VideoFamily(card) = "h265" ->
         [card EXCEPT !.video.h265 = SortByArea(card.video.h265)]
    [] OTHER -> card

\* parseMediaFromFeed: the media items it returns; every TypeError ends in
\* the catch, which returns [].
parseMediaFromFeed(feed, path) ==
  LET id == extractNoteId(path)
      m == FirstMatch(feed.items, id)
  IN  IF id = Null \/ ~feed.hasData \/ FindThrows(feed.items, id) \/ m = 0
        THEN <<>>
      ELSE IF ImagesThrow(feed.items[m].note_card) THEN <<>>
      ELSE FeedImageItems(feed.items[m].note_card) \o
           FeedVideoItems(feed.items[m].note_card)

\* The payload object after parseMediaFromFeed(feed) returned.
FeedAfterParse(feed, path) ==
  LET id == extractNoteId(path)
      m == FirstMatch(feed.items, id)
  IN  IF id = Null \/ ~feed.hasData \/ FindThrows(feed.items, id) \/ m = 0
        THEN feed
      ELSE IF ImagesThrow(feed.items[m].note_card) THEN feed
      ELSE [feed EXCEPT !.items[m].note_card = CardAfterParse(@)]

\* Lines 485-508 of extractMediaFromPage, outside any try: items.find and
\* items.map read note_card.note_id of the items of the payload.
DiagnosticsThrow(feed, path) ==
  ~feed.hasData \/ FindThrows(feed.items, extractNoteId(path))

\* attemptDirectFeedFetch: returns null on every path (lines 1024-1050).
attemptDirectFeedFetch(path) == Null

---------------------------------------------------------------------------
(* The document and the DOM normalizers                                    *)

\* The text of an element that is not in the document.
NoElement == "<none>"

\* String.prototype.trim on the texts of the model.
Trim(t) ==
  CASE t = NoElement -> ""
    [] t = " " -> ""
    [] t = " Nick " -> "Nick"
    [] OTHER -> t

SiteName == "RedNote"   \* the site's own name, the generic document.title

\* document.title.replace(" - <site name>", "").trim(); a title is its text
\* and whether the site suffix follows it.
DocTitle(text, suffix) == [text |-> text, suffix |-> suffix]
StripTitle(dt) == Trim(dt.text)

\* Lines 384-395: the ten author selectors, tried in order.
AuthorSelectors == 10
\* "[data-v-*] .name" (line 393) is no CSS selector: querySelector throws a
\* SyntaxError for it.
InvalidAuthorSelector == 9
\* Lines 407-415: the seven content selectors.
ContentSelectors == 7
\* Line 432: a line of the body counts when it has more than 20 characters.
MinBodyLine == 20
\* Line 434: at most the first 10 such lines are taken.
MaxBodyLines == 10

RECURSIVE JoinLines(_)
JoinLines(lines) ==
  IF lines = <<>> THEN ""
  ELSE IF Len(lines) = 1 THEN lines[1]
  ELSE lines[1] \o "\n" \o JoinLines(Tail(lines))

RECURSIVE FilterLong(_)
FilterLong(lines) ==
  IF lines = <<>> THEN <<>>
  ELSE IF Len(Trim(lines[1])) > MinBodyLine
    THEN <<lines[1]>> \o FilterLong(Tail(lines))
  ELSE FilterLong(Tail(lines))

\* Lines 370-380.
DomTitle(dom) ==
  LET title == StripTitle(dom.docTitle)
  IN  IF (title = SiteName \/ title = "") /\ dom.titleEl # NoElement
        THEN OrElse(Trim(dom.titleEl), title)
      ELSE title

\* Lines 397-403: the index of the selector the loop stops at, or
\* AuthorSelectors + 1 when no selector has an element with text.
AuthorHits(dom) == {i \in 1..AuthorSelectors : Trim(dom.authors[i]) # ""}
AuthorStop(dom) ==
  IF AuthorHits(dom) = {} THEN AuthorSelectors + 1 ELSE MinOf(AuthorHits(dom))
AuthorLoopThrows(dom) == InvalidAuthorSelector <= AuthorStop(dom)
DomAuthor(dom) ==
  IF AuthorHits(dom) = {} THEN "" ELSE Trim(dom.authors[AuthorStop(dom)])

\* Lines 417-425: the longest text of the content selectors, the first of
\* them among equals.
RECURSIVE LongestText(_, _)
LongestText(texts, best) ==
  IF texts = <<>> THEN best
  ELSE LongestText(Tail(texts),
                   IF Len(Trim(texts[1])) > Len(best) THEN Trim(texts[1]) ELSE best)

\* Lines 428-436.
DomContent(dom) ==
  LET content == LongestText(dom.contents, "")
      lines == FilterLong(dom.bodyLines)
  IN  IF content # "" THEN content
      ELSE IF Len(lines) > 0
        THEN Trim(JoinLines(SubSeq(lines, 1,
                                   IF Len(lines) < MaxBodyLines THEN Len(lines)
                                   ELSE MaxBodyLines)))
      ELSE ""

\* extractNoteContentFromDOM: [found, note]; the catch returns null.
extractNoteContentFromDOM(dom, href) ==
  IF AuthorLoopThrows(dom) THEN [found |-> FALSE, note |-> NoNote]
  ELSE IF DomTitle(dom) = "" /\ DomAuthor(dom) = "" /\ DomContent(dom) = ""
    THEN [found |-> FALSE, note |-> NoNote]
  ELSE [found |-> TRUE,
        note |-> NoteContent(OrElse(DomTitle(dom), Untitled),
                             OrElse(DomAuthor(dom), UnknownAuthor),
                             OrElse(DomContent(dom), NoContent), href)]

\* The documents the content normalizer is run on.
NoAuthors == [i \in 1..AuthorSelectors |-> NoElement]
AuthorLists ==
  { NoAuthors,
    [NoAuthors EXCEPT ![1] = "Nick"],
    [NoAuthors EXCEPT ![1] = " ", ![2] = " Nick "],
    [NoAuthors EXCEPT ![8] = "Nick"],
    [NoAuthors EXCEPT ![10] = "Nick"] }
NoContents == [i \in 1..ContentSelectors |-> NoElement]
TitleParts ==
  { <<DocTitle("", FALSE), NoElement>>, <<DocTitle("", FALSE), "Heading">>,
    <<DocTitle(SiteName, FALSE), NoElement>>, <<DocTitle(SiteName, FALSE), " ">>,
    <<DocTitle("My note", TRUE), "Heading">> }
ContentParts ==
  { <<NoContents, <<>> >>,
    <<NoContents, <<"short line", "a line of the body, longer than twenty",
                    "and a second line of such length">> >>,
    <<[NoContents EXCEPT ![1] = "desc", ![4] = "a longer desc", ![7] = "same len desc"],
      <<>> >>,
    <<[NoContents EXCEPT ![2] = " "], <<"short line">> >> }

ContentDoms ==
  { [docTitle |-> t[1], titleEl |-> t[2], authors |-> a, contents |-> c[1],
     bodyLines |-> c[2]] : t \in TitleParts, a \in AuthorLists, c \in ContentParts }

\* The tokens of the URLs of the document's images.
CdnHost == "https://sns-webpic-qc.xhscdn.com/"
QueryToks == {"?x=1", "?imageView2/format/webp"}
SizeToks == {"_100x100"}
DotToks == {".jpg", ".png", ".webp"}
WebpToks == {".webp", "?imageView2/format/webp"}

\* url.replace(/\?.*$/, ""): the url up to its first "?".
StripQuery(url) ==
  LET q == {i \in 1..Len(url) : url[i] \in QueryToks}
  IN  IF q = {} THEN url ELSE SubSeq(url, 1, MinOf(q) - 1)

\* url.replace(/_\d+x\d+\./, "."): the first size suffix that a "." follows
\* is taken out.
StripSize(url) ==
  LET z == {i \in 1..(Len(url) - 1) : url[i] \in SizeToks /\ url[i + 1] \in DotToks}
  IN  IF z = {} THEN url
      ELSE SubSeq(url, 1, MinOf(z) - 1) \o SubSeq(url, MinOf(z) + 1, Len(url))

OriginalSrc(url) == StripSize(StripQuery(url))

\* Lines 570-572: the extension of an image of the document.
DomExtension(url) ==
  IF \E i \in 1..Len(url) : url[i] \in WebpToks THEN "webp"
  ELSE IF Includes(url, ".png") THEN "png"
  ELSE "jpg"

\* Array.from(new Set(urls)): the first occurrence of each url, in order.
RECURSIVE Dedupe(_)
Dedupe(urls) ==
  IF urls = <<>> THEN <<>>
  ELSE LET front == Dedupe(SubSeq(urls, 1, Len(urls) - 1))
           last == urls[Len(urls)]
       IN  IF \E i \in 1..Len(front) : front[i] = last THEN front
           ELSE Append(front, last)

RECURSIVE FilterCdn(_)
FilterCdn(srcs) ==
  IF srcs = <<>> THEN <<>>
  ELSE IF srcs[1] # Undefined /\ Includes(srcs[1], CdnHost)
    THEN <<srcs[1]>> \o FilterCdn(Tail(srcs))
  ELSE FilterCdn(Tail(srcs))

\* getCurrentNoteImgEls: the src attributes of the images of the first of
\* the three selectors that has any.
getCurrentNoteImgEls(dom) ==
  IF dom.imgContainer # <<>> THEN dom.imgContainer
  ELSE IF dom.noteContentImgs # <<>> THEN dom.noteContentImgs
  ELSE dom.swiperImgs

\* Lines 334-360: the six video selectors, tried in order.
VideoSelectors == 6

VideoEl(currentSrc, src, sources) ==
  [present |-> TRUE, currentSrc |-> currentSrc, src |-> src, sources |-> sources]
NoVideoEl == [present |-> FALSE, currentSrc |-> <<>>, src |-> <<>>, sources |-> <<>>]

\* The url one video element gives: currentSrc, else src, else the first
\* source that has a src; <<>> when it has none.
VideoElUrl(el) ==
  LET withSrc == {i \in 1..Len(el.sources) : el.sources[i] # <<>>}
  IN  IF el.currentSrc # <<>> THEN el.currentSrc
      ELSE IF el.src # <<>> THEN el.src
      ELSE IF withSrc # {} THEN el.sources[MinOf(withSrc)]
      ELSE <<>>

\* getCurrentNoteVideoUrl: <<>> stands for null.
getCurrentNoteVideoUrl(dom) ==
  LET hits == {i \in 1..VideoSelectors :
                 dom.videos[i].present /\ VideoElUrl(dom.videos[i]) # <<>>}
  IN  IF hits = {} THEN <<>> ELSE VideoElUrl(dom.videos[MinOf(hits)])

\* extractMediaFromPageDOM after its wait (lines 553-596).
DomImageUrls(dom) == Dedupe(FilterCdn(getCurrentNoteImgEls(dom)))

extractMediaFromPageDOM(dom) ==
  LET urls == DomImageUrls(dom)
      images == [i \in 1..Len(urls) |->
                   MediaItem(OriginalSrc(urls[i]), "image",
                             ImageName(i, DomExtension(urls[i])))]
      videoUrl == getCurrentNoteVideoUrl(dom)
  IN  IF videoUrl # <<>> /\ ~(\E i \in 1..Len(urls) : urls[i] = videoUrl)
        THEN Append(images, MediaItem(videoUrl, "video", VideoName))
      ELSE images

\* The documents the media normalizer is run on.
SizedJpg == <<CdnHost, "i1", "_100x100", ".jpg", "?x=1">>
WebpQueryJpg == <<CdnHost, "i2", ".jpg", "?imageView2/format/webp">>
CdnPng == <<CdnHost, "i3", ".png">>
AvatarUrl == <<"https://sns-avatar-qc.xhscdn.com/", "me", ".jpg">>
BlobVideo == <<"blob:", "v1">>
NoVideoEls == [i \in 1..VideoSelectors |-> NoVideoEl]

MediaDom(c, n, sw, v) ==
  [imgContainer |-> c, noteContentImgs |-> n, swiperImgs |-> sw, videos |-> v]

EmptyMediaDom == MediaDom(<<>>, <<>>, <<>>, NoVideoEls)

MediaDoms ==
  { EmptyMediaDom,
    MediaDom(<<SizedJpg, AvatarUrl, Undefined, SizedJpg, CdnPng>>, <<SizedJpg>>,
             <<WebpQueryJpg>>, NoVideoEls),
    MediaDom(<<AvatarUrl>>, <<>>, <<WebpQueryJpg>>, NoVideoEls),
    MediaDom(<<>>, <<>>, <<WebpQueryJpg, CdnPng>>,
             [NoVideoEls EXCEPT ![1] = VideoEl(BlobVideo, VidLo, <<>>)]),
    MediaDom(<<>>, <<>>, <<>>,
             [NoVideoEls EXCEPT ![1] = VideoEl(<<>>, <<>>, <<>>),
                                ![6] = VideoEl(<<>>, <<>>, <<(<<>>), VidHi>>)]),
    MediaDom(<<>>, <<>>, <<>>,
             [NoVideoEls EXCEPT ![1] = VideoEl(<<>>, <<>>, <<>>)]) }

\* waitForSelector(selectors, 3000) polls every 200 ms.
WaitTimeout == 3000
PollInterval == 200
SettleDelay == 500

---------------------------------------------------------------------------
(* The state                                                               *)

VARIABLES
  cachedFeedData,  \* let cachedFeedData of the content script (line 607)
  csOps,           \* storage calls the content script made, not yet served
  path,            \* window.location.pathname of the page
  exOp,            \* the extraction that runs: none, media, note
  exPc,            \* its position: idle, fetch, wait, settle, dom, done
  exPolls,         \* the polls waitForSelector has made
  exRead,          \* what getCachedFeedData() returned to the extraction
  exDomMedia,      \* the document the media normalizer read
  exDomContent,    \* the document the content normalizer read
  exMedia,         \* the MediaItem[] the extraction returned
  exNote,          \* the NoteContent the extraction returned: [found, note]
  exOutcome,       \* none, returned, threw
  exTried,         \* the strategies the extraction started, in order
  exCalls          \* the extractions started so far

VARIABLES
  zipPc,        \* position in downloadAsZip: idle, loop, content, generate, done
  zipItems,     \* the mediaItems argument
  zipExtended,  \* extendedContent != null
  zipNote,      \* noteContent != null
  zipIdx,       \* number of media items the for loop has been through
  zipFiles,     \* names of the entries of the JSZip object
  zipCurrent,   \* let current
  zipTotal,     \* const total
  zipProgress,  \* the calls of downloadCallback so far, in order
  zipFetched,   \* the outcome of the fetch of each item the loop has been through
  zipRet        \* what the call returned: none, true, false

zipVars == <<zipPc, zipItems, zipExtended, zipNote, zipIdx, zipFiles,
             zipCurrent, zipTotal, zipProgress, zipFetched, zipRet>>

VARIABLES
  store,       \* browser.storage.local: the keys it holds and their values
  csLoads,     \* results of storage.local.get on their way to the content script
  clock,       \* Date.now()
  msgs,        \* the messages sent so far: action, data, position, responses
  bgOps,       \* storage calls the background script made, not yet served
  asyncPc,     \* getCachedFeedDataAsync of the popup: idle, pending, returned
  asyncRet,    \* what it returned
  popupCache,  \* let cachedFeedData of the popup's copy of the module
  lastPut,     \* the argument of the latest setCachedFeedData of the content script
  putCount,    \* the calls of setCachedFeedData of the content script so far
  clearState,  \* the clearFeedCache sent since the latest put, and how far it is
  asyncClean,  \* the running getCachedFeedDataAsync started after a finished clear
  syncRet      \* the latest call of getCachedFeedData(): what it returned, and when

cacheVars == <<cachedFeedData, csOps>>
restVars == <<store, csLoads, clock, msgs, bgOps, asyncPc, asyncRet, popupCache,
              lastPut, putCount, clearState, asyncClean, syncRet>>
exVars == <<path, exOp, exPc, exPolls, exRead, exDomMedia, exDomContent, exMedia,
            exNote, exOutcome, exTried, exCalls>>


VARIABLES
  cmPc,        \* extractExtendedNoteContent: idle, comments, api, dom, done
  cmToken,     \* xsec_token of window.location.search: absent, empty, value
  cmBase,      \* what extractNoteContent returned to it: [found, note]
  cmRequests,  \* the fetches of the comment API it made
  cmApi,       \* what the comment API answered
  cmDoc,       \* the comment elements of the document
  cmComments,  \* the comments of its result
  cmTried,     \* the comment strategies it ran, in order
  cmRet,       \* what it returned: none, null, value
  xpReport,    \* the entries of the text report of the popup
  xpJson,      \* the entries of the JSON dump of the popup
  xpPreview    \* the comments the popup shows
cmVars == <<cmPc, cmToken, cmBase, cmRequests, cmApi, cmDoc, cmComments, cmTried,
            cmRet, xpReport, xpJson, xpPreview>>

VARIABLES
  ftPc,        \* the fetch override of the page: idle, first, json, second, plain, done
  ftUrl,       \* the first argument of the call: a feed url, another url, a Request
  ftRequests,  \* the calls of originalFetch this call has made
  ftEvents,    \* the feedDataIntercepted events this call has dispatched
  ftResult,    \* what the page got: nothing yet, a response, an error
  ftCalls,     \* the calls of fetch the page has made
  ftLog        \* the finished calls: url, requests, events, result
ftVars == <<ftPc, ftUrl, ftRequests, ftEvents, ftResult, ftCalls, ftLog>>

VARIABLES
  hoPc,        \* the handoff of the content script: idle, first, timer, second, done
  hoRequests,  \* the getFeedData messages it has sent
  hoWaited,    \* the milliseconds gone by since setTimeout
  hoBg,        \* the message in flight: none, sent, answered, rejected
  hoReply,     \* result.cachedFeedData of the get of the background script
  hoAnswers    \* how the requests ended, in order: success, failure, rejected
hoVars == <<hoPc, hoRequests, hoWaited, hoBg, hoReply, hoAnswers>>

sideVars == <<ftVars, hoVars>>

vars == <<cacheVars, restVars, exVars, zipVars, cmVars, sideVars>>

\* The value of cachedFeedData, and of a payload argument, that is null or
\* undefined.
NoFeed == Feed(FALSE, FALSE, <<>>)

\* No call of fetch has been made by the page.
NoResult == [kind |-> "none", request |-> 0, bodyUsed |-> FALSE]
FtInit ==
  /\ ftPc = "idle"
  /\ ftUrl = "none"
  /\ ftRequests = 0
  /\ ftEvents = 0
  /\ ftResult = NoResult
  /\ ftCalls = 0
  /\ ftLog = <<>>

\* The content script has not started.
HoInit ==
  /\ hoPc = "idle"
  /\ hoRequests = 0
  /\ hoWaited = 0
  /\ hoBg = "none"
  /\ hoReply = NoFeed
  /\ hoAnswers = <<>>

RECURSIVE PathText(_)
PathText(p) == IF p = <<>> THEN "" ELSE "/" \o p[1].name \o PathText(Tail(p))
\* window.location.href
Href(p) == "https://www.xiaohongshu.com" \o PathText(p)

\* A storage call of a context, waiting to be served.
SetOp(data, ts) == [op |-> "set", data |-> data, ts |-> ts]
GetOp == [op |-> "get", data |-> NoFeed, ts |-> 0]

\* getCachedFeedData (lines 789-805) returns cachedFeedData; when that is
\* null it starts loadCachedFeedDataFromStorage, whose first step is the
\* storage.local.get of getCachedFeedDataAsync.
OpsAfterGetCached(ops) ==
  IF cachedFeedData = NoFeed THEN Append(ops, GetOp) ELSE ops

---------------------------------------------------------------------------
(* The extraction chains, step by step                                     *)

\* The extractions of one behaviour.
MaxCalls == 2

EmptyContentDom ==
  [docTitle |-> DocTitle("", FALSE), titleEl |-> NoElement, authors |-> NoAuthors,
   contents |-> NoContents, bodyLines |-> <<>>]

ExIdle ==
  /\ exOp = "none"
  /\ exPc = "idle"
  /\ exPolls = 0
  /\ exRead = NoFeed
  /\ exDomMedia = EmptyMediaDom
  /\ exDomContent = EmptyContentDom
  /\ exMedia = <<>>
  /\ exNote = [found |-> FALSE, note |-> NoNote]
  /\ exOutcome = "none"
  /\ exTried = <<>>

ExInit ==
  /\ path \in Pathnames
  /\ ExIdle
  /\ exCalls = 0

\* What the first strategy of extractMediaFromPage comes to (lines 475-510):
\* accepted, threw (the diagnostics after an empty list) or rejected.
CacheStepFallsThrough(feed, p) == "rejected"
CacheStep(feed, p) ==
  IF feed = NoFeed THEN "rejected"
  ELSE IF parseMediaFromFeed(feed, p) # <<>> THEN "accepted"
  ELSE IF DiagnosticsThrow(feed, p) THEN "threw"
  ELSE "rejected"

\* extractMediaFromPage up to its first await (lines 471-514).
ExMediaStart ==
  /\ UNCHANGED <<sideVars, zipVars, restVars, cmVars>>
  /\ exPc = "idle"
  /\ exCalls < MaxCalls
  /\ exCalls' = exCalls + 1
  /\ exOp' = "media"
  /\ exRead' = cachedFeedData
  /\ csOps' = OpsAfterGetCached(csOps)
  /\ cachedFeedData' =
       IF cachedFeedData = NoFeed THEN NoFeed ELSE FeedAfterParse(cachedFeedData, path)
  /\ exTried' = <<"cache">>
  /\ CASE CacheStep(cachedFeedData, path) = "accepted" ->
            /\ exMedia' = parseMediaFromFeed(cachedFeedData, path)
            /\ exOutcome' = "returned"
            /\ exPc' = "done"
       [] CacheStep(cachedFeedData, path) = "threw" ->
            /\ exMedia' = <<>>
            /\ exOutcome' = "threw"
            /\ exPc' = "done"
       [] OTHER ->
            /\ exMedia' = <<>>
            /\ exOutcome' = "none"
            /\ exPc' = "fetch"
  /\ UNCHANGED <<path, exPolls, exDomMedia, exDomContent, exNote>>

\* Lines 512-528: the fresh fetch and what follows it.
ExMediaFetch ==
  /\ UNCHANGED <<sideVars, zipVars, restVars, cmVars>>
  /\ exPc = "fetch"
  /\ exOp = "media"
  /\ exTried' = Append(exTried, "fetch")
  /\ LET fresh == attemptDirectFeedFetch(path)
     IN  IF fresh # Null /\ parseMediaFromFeed(fresh, path) # <<>>
           THEN /\ exMedia' = parseMediaFromFeed(fresh, path)
                /\ exOutcome' = "returned"
                /\ exPc' = "done"
                /\ exPolls' = exPolls
           ELSE /\ exPc' = "wait"
                /\ exPolls' = 0
                /\ UNCHANGED <<exMedia, exOutcome>>
  /\ UNCHANGED <<cacheVars, path, exOp, exRead, exDomMedia, exDomContent, exNote,
                 exCalls>>

\* waitForSelector (lines 284-296): one tick of the interval timer.  A poll
\* that finds a selector resolves; one that finds none rejects once more
\* than the timeout has gone by, and the catch of extractMediaFromPageDOM
\* goes on to the extraction.
PollsGiveUp(polls) == polls * PollInterval > WaitTimeout

ExMediaPoll ==
  /\ UNCHANGED <<sideVars, zipVars, restVars, cmVars>>
  /\ exPc = "wait"
  /\ exPolls' = exPolls + 1
  /\ exTried' = IF exPolls = 0 THEN Append(exTried, "dom") ELSE exTried
  /\ \E present \in BOOLEAN :
       exPc' = IF present THEN "settle"
               ELSE IF PollsGiveUp(exPolls + 1) THEN "dom"
               ELSE "wait"
  /\ UNCHANGED <<cacheVars, path, exOp, exRead, exDomMedia, exDomContent, exMedia,
                 exNote, exOutcome, exCalls>>

\* Line 548: the delay after a selector was found.
ExMediaSettle ==
  /\ UNCHANGED <<sideVars, zipVars, restVars, cmVars>>
  /\ exPc = "settle"
  /\ exPc' = "dom"
  /\ UNCHANGED <<cacheVars, path, exOp, exPolls, exRead, exDomMedia, exDomContent,
                 exMedia, exNote, exOutcome, exTried, exCalls>>

\* Lines 553-596: the media normalizer on the document as it is now.
ExMediaDom ==
  /\ UNCHANGED <<sideVars, zipVars, restVars, cmVars>>
  /\ exPc = "dom"
  /\ \E d \in MediaDoms :
       /\ exDomMedia' = d
       /\ exMedia' = extractMediaFromPageDOM(d)
  /\ exOutcome' = "returned"
  /\ exPc' = "done"
  /\ UNCHANGED <<cacheVars, path, exOp, exPolls, exRead, exDomContent, exNote,
                 exTried, exCalls>>

\* extractNoteContent (lines 455-469), a synchronous function.
ExNoteContent ==
  /\ UNCHANGED <<sideVars, zipVars, restVars, cmVars>>
  /\ exPc = "idle"
  /\ exCalls < MaxCalls
  /\ exCalls' = exCalls + 1
  /\ exOp' = "note"
  /\ exRead' = cachedFeedData
  /\ csOps' = OpsAfterGetCached(csOps)
  /\ IF cachedFeedData # NoFeed
        /\ parseNoteContentFromFeed(cachedFeedData, path, Href(path)).found
       THEN /\ exNote' = parseNoteContentFromFeed(cachedFeedData, path, Href(path))
            /\ exTried' = <<"cache">>
            /\ UNCHANGED exDomContent
       ELSE \E d \in ContentDoms :
              /\ exDomContent' = d
              /\ exNote' = extractNoteContentFromDOM(d, Href(path))
              /\ exTried' = <<"cache", "dom">>
  /\ exOutcome' = "returned"
  /\ exPc' = "done"
  /\ UNCHANGED <<cachedFeedData, path, exPolls, exDomMedia, exMedia>>

\* The caller has the result; the next extraction can start.
ExReturn ==
  /\ UNCHANGED <<sideVars, zipVars, restVars, cmVars>>
  /\ exPc = "done"
  /\ exOp' = "none"
  /\ exPc' = "idle"
  /\ exPolls' = 0
  /\ exRead' = NoFeed
  /\ exDomMedia' = EmptyMediaDom
  /\ exDomContent' = EmptyContentDom
  /\ exMedia' = <<>>
  /\ exNote' = [found |-> FALSE, note |-> NoNote]
  /\ exOutcome' = "none"
  /\ exTried' = <<>>
  /\ UNCHANGED <<cacheVars, path, exCalls>>

ExNext ==
  \/ ExMediaStart
  \/ ExMediaFetch
  \/ ExMediaPoll
  \/ ExMediaSettle
  \/ ExMediaDom
  \/ ExNoteContent
  \/ ExReturn

---------------------------------------------------------------------------
(* The cache, the durable store and the message handlers                   *)

\* The calls of setCachedFeedData of one behaviour.
MaxPuts == 2
\* The messages of one behaviour.
MaxMsgs == 2

\* The payloads of the behaviours of the cache.
FeedA == Feed(TRUE, TRUE, <<ImageNote>>)
FeedB == Feed(TRUE, TRUE, <<BareItem, OtherNote>>)
OldFeed == Feed(TRUE, TRUE, <<OtherNote>>)
FailedFeed == Feed(FALSE, TRUE, <<ImageNote>>)
EmptyFeed == Feed(TRUE, TRUE, <<>>)
EventFeeds == {FeedA, FeedB, FailedFeed}
MsgFeeds == {FeedA, Feed(TRUE, TRUE, <<BareItem>>), EmptyFeed, NoFeed}

NotePath == <<Seg("explore", "e"), Seg("a1", "a1")>>

\* browser.storage.local: the two keys of the cache.
Stored(feed, ts) == [hasFeed |-> TRUE, feed |-> feed, hasTs |-> TRUE, ts |-> ts]
EmptyStore == [hasFeed |-> FALSE, feed |-> NoFeed, hasTs |-> FALSE, ts |-> 0]

\* storage.local.set({cachedFeedData, feedDataTimestamp}) as the store
\* serves it.
StoreAfterSetFeedOnly(st, op) == [st EXCEPT !.hasFeed = TRUE, !.feed = op.data]
StoreAfterSet(st, op) == Stored(op.data, op.ts)
\* storage.local.remove(["cachedFeedData", "feedDataTimestamp"])
StoreAfterRemove(st) == EmptyStore
\* result.cachedFeedData of a storage.local.get: NoFeed when the key is not
\* there.
StoredFeed(st) == IF st.hasFeed THEN st.feed ELSE NoFeed

Response(success) == [success |-> success]
Msg(action, data) == [action |-> action, data |-> data, pc |-> "sent", responses |-> <<>>]

CsActions ==
  {"feedDataUpdated", "injectFeedData", "extractMedia", "extractNoteContent",
   "extractExtendedNoteContent"}
BgActions == {"getFeedData", "clearFeedCache"}
DataActions == {"feedDataUpdated", "injectFeedData"}

SyncCall(ret, puts, last, cleared) ==
  [called |-> TRUE, ret |-> ret, puts |-> puts, last |-> last, cleared |-> cleared]
NoSyncCall ==
  [called |-> FALSE, ret |-> NoFeed, puts |-> 0, last |-> NoFeed, cleared |-> FALSE]

CacheInit ==
  /\ cachedFeedData = NoFeed
  /\ csOps = <<>>
  /\ csLoads = <<>>
  /\ clock = 1
  /\ msgs = <<>>
  /\ bgOps = <<>>
  /\ asyncPc = "idle"
  /\ asyncRet = NoFeed
  /\ popupCache = NoFeed
  /\ lastPut = NoFeed
  /\ putCount = 0
  /\ clearState = [state |-> "none", msg |-> 0]
  /\ asyncClean = FALSE
  /\ syncRet = NoSyncCall

\* setCachedFeedData(data) (lines 741-786): the memory cache is set and the
\* write to the store is started.
MemoryAfterPut(mem, data) == data
OpsAfterPut(ops, data, now) == Append(ops, SetOp(data, now))

\* The log of setCachedFeedData (lines 767-785) reads note_card.note_id of
\* every item of kind "note": a TypeError when the item has no note_card,
\* after the memory cache is set and the write started.
PutThrows(data) ==
  \E i \in 1..Len(data.items) :
    data.items[i].model_type = "note" /\ ~data.items[i].hasCard

\* The clear of the popup (clearCache), seen from the latest put: none since
\* then, message i sent, or its keys removed and the message answered.
ClearNone == [state |-> "none", msg |-> 0]
ClearIssued(i) == [state |-> "issued", msg |-> i]
ClearDone == [state |-> "done", msg |-> 0]

\* What every call of setCachedFeedData(data) does in the content script;
\* more is the number of further storage writes of the caller.
SetCached(data, more) ==
  /\ putCount < MaxPuts
  /\ cachedFeedData' = MemoryAfterPut(cachedFeedData, data)
  /\ csOps' = IF more = 0 THEN OpsAfterPut(csOps, data, clock)
              ELSE Append(OpsAfterPut(csOps, data, clock), SetOp(data, clock))
  /\ clock' = clock + 1
  /\ lastPut' = data
  /\ putCount' = putCount + 1
  /\ clearState' = ClearNone
  /\ asyncClean' = FALSE

\* What every call of getCachedFeedData() does in the content script.
GetCached ==
  /\ csOps' = OpsAfterGetCached(csOps)
  /\ syncRet' = SyncCall(cachedFeedData, putCount, lastPut, clearState = ClearDone)

\* The listener of feedDataIntercepted (part_005 lines 154-175): a usable
\* payload is cached, and written to the store a second time.
CsIntercepted ==
  /\ UNCHANGED <<sideVars, zipVars, exVars, cmVars>>
  /\ \E data \in EventFeeds :
       IF Usable(data)
         THEN SetCached(data, IF PutThrows(data) THEN 0 ELSE 1)
       ELSE /\ putCount < MaxPuts
            /\ UNCHANGED <<cachedFeedData, csOps, clock, lastPut, putCount,
                           clearState, asyncClean>>
  /\ UNCHANGED <<store, csLoads, msgs, bgOps, asyncPc, asyncRet, popupCache, syncRet>>

\* The listener of manualFeedDataInjection (part_005 lines 178-188).
CsManualInjection ==
  /\ UNCHANGED <<sideVars, zipVars, exVars, cmVars>>
  /\ \E data \in EventFeeds : Usable(data) /\ SetCached(data, 0)
  /\ UNCHANGED <<store, csLoads, msgs, bgOps, asyncPc, asyncRet, popupCache, syncRet>>

\* A message is sent: by the popup to the content script or the background
\* script, or by an extension page to the content script.
MsgSend ==
  /\ UNCHANGED <<sideVars, zipVars, exVars, cmVars>>
  /\ Len(msgs) < MaxMsgs
  /\ \E action \in CsActions \cup BgActions, data \in MsgFeeds :
       /\ action \notin DataActions => data = NoFeed
       /\ msgs' = Append(msgs, Msg(action, data))
       /\ clearState' = IF action = "clearFeedCache" /\ putCount > 0
                         THEN ClearIssued(Len(msgs) + 1) ELSE clearState
  /\ UNCHANGED <<cacheVars, store, csLoads, clock, bgOps, asyncPc, asyncRet,
                 popupCache, lastPut, putCount, asyncClean, syncRet>>

Answered(i, success, pc) ==
  [msgs EXCEPT ![i].responses = Append(@, Response(success)), ![i].pc = pc]
Moved(i, pc) == [msgs EXCEPT ![i].pc = pc]

\* The first listener of the content script (part_005 lines 121-151) on
\* feedDataUpdated: it answers only a usable payload.
UpdatedHandled(i) ==
  IF Usable(msgs[i].data) THEN Answered(i, ~PutThrows(msgs[i].data), "done")
  ELSE Moved(i, "done")

\* The second listener (lines 203-221) on injectFeedData; feedData.success
\* of a message without data is a TypeError, which the catch answers, as it
\* does a throw of setCachedFeedData.
InjectHandled(i) ==
  Answered(i, Usable(msgs[i].data) /\ ~PutThrows(msgs[i].data), "done")

\* A message to the content script goes through its two listeners.
CsReceiveData ==
  /\ UNCHANGED <<sideVars, zipVars, exVars, cmVars>>
  /\ \E i \in 1..Len(msgs) :
       /\ msgs[i].pc = "sent"
       /\ msgs[i].action \in DataActions
       /\ msgs' = IF msgs[i].action = "feedDataUpdated" THEN UpdatedHandled(i)
                  ELSE InjectHandled(i)
       /\ IF Usable(msgs[i].data)
            THEN SetCached(msgs[i].data, 0)
          ELSE UNCHANGED <<cachedFeedData, csOps, clock, lastPut, putCount,
                           clearState, asyncClean>>
  /\ UNCHANGED <<store, csLoads, bgOps, asyncPc, asyncRet, popupCache, syncRet>>

\* Lines 237-244: extractNoteContent is called and its result sent.
CsReceiveNoteContent ==
  /\ UNCHANGED <<sideVars, zipVars, exVars, cmVars>>
  /\ \E i \in 1..Len(msgs) :
       /\ msgs[i].pc = "sent"
       /\ msgs[i].action = "extractNoteContent"
       /\ msgs' = Answered(i, TRUE, "done")
  /\ GetCached
  /\ UNCHANGED <<cachedFeedData, store, csLoads, clock, bgOps, asyncPc, asyncRet,
                 popupCache, lastPut, putCount, clearState, asyncClean>>

\* Lines 223-235: the handler of extractMedia starts its 500 ms wait.
CsReceiveMedia ==
  /\ UNCHANGED <<sideVars, zipVars, exVars, cmVars>>
  /\ \E i \in 1..Len(msgs) :
       /\ msgs[i].pc = "sent"
       /\ msgs[i].action = "extractMedia"
       /\ msgs' = Moved(i, "sleep")
  /\ UNCHANGED <<cacheVars, store, csLoads, clock, bgOps, asyncPc, asyncRet,
                 popupCache, lastPut, putCount, clearState, asyncClean, syncRet>>

\* extractMediaFromPage up to its first await, in the handler: an accepted
\* cache result is sent, a throw is answered by the catch of the handler.
CsMediaRun ==
  /\ UNCHANGED <<sideVars, zipVars, exVars, cmVars>>
  /\ \E i \in 1..Len(msgs) :
       /\ msgs[i].pc = "sleep"
       /\ msgs' = CASE CacheStep(cachedFeedData, path) = "accepted" ->
                         Answered(i, TRUE, "done")
                    [] CacheStep(cachedFeedData, path) = "threw" ->
                         Answered(i, FALSE, "done")
                    [] OTHER -> Moved(i, "dom")
  /\ GetCached
  /\ cachedFeedData' =
       IF cachedFeedData = NoFeed THEN NoFeed ELSE FeedAfterParse(cachedFeedData, path)
  /\ UNCHANGED <<store, csLoads, clock, bgOps, asyncPc, asyncRet, popupCache,
                 lastPut, putCount, clearState, asyncClean>>

\* The fresh fetch and the DOM extraction are through; the list is sent.
CsMediaDomDone ==
  /\ UNCHANGED <<sideVars, zipVars, exVars, cmVars>>
  /\ \E i \in 1..Len(msgs) :
       /\ msgs[i].pc = "dom"
       /\ msgs' = Answered(i, TRUE, "done")
  /\ UNCHANGED <<cacheVars, store, csLoads, clock, bgOps, asyncPc, asyncRet,
                 popupCache, lastPut, putCount, clearState, asyncClean, syncRet>>

\* Lines 246-256: extractExtendedNoteContent up to its first await: the
\* base content; without one, null is sent.
CsReceiveExtended ==
  /\ UNCHANGED <<sideVars, zipVars, exVars, cmVars>>
  /\ \E i \in 1..Len(msgs), d \in {EmptyContentDom, [EmptyContentDom EXCEPT !.authors[1] = "Nick"]} :
       /\ msgs[i].pc = "sent"
       /\ msgs[i].action = "extractExtendedNoteContent"
       /\ LET fromCache == IF cachedFeedData = NoFeed THEN FALSE
                           ELSE parseNoteContentFromFeed(cachedFeedData, path, Href(path)).found
              base == fromCache \/ extractNoteContentFromDOM(d, Href(path)).found
          IN  msgs' = IF base THEN Moved(i, "comments") ELSE Answered(i, TRUE, "done")
  /\ GetCached
  /\ UNCHANGED <<cachedFeedData, store, csLoads, clock, bgOps, asyncPc, asyncRet,
                 popupCache, lastPut, putCount, clearState, asyncClean>>

\* extractComments is through (it catches what its strategies throw); the
\* extended content is sent.
CsExtendedDone ==
  /\ UNCHANGED <<sideVars, zipVars, exVars, cmVars>>
  /\ \E i \in 1..Len(msgs) :
       /\ msgs[i].pc = "comments"
       /\ msgs' = Answered(i, TRUE, "done")
  /\ UNCHANGED <<cacheVars, store, csLoads, clock, bgOps, asyncPc, asyncRet,
                 popupCache, lastPut, putCount, clearState, asyncClean, syncRet>>

\* The listener of the background script (part_004 lines 248-287): it
\* starts the storage call of the action.
BgOp(op, i) == [op |-> op, msg |-> i]

BgReceive ==
  /\ UNCHANGED <<sideVars, zipVars, exVars, cmVars>>
  /\ \E i \in 1..Len(msgs) :
       /\ msgs[i].pc = "sent"
       /\ msgs[i].action \in BgActions
       /\ msgs' = Moved(i, "storage")
       /\ bgOps' = Append(bgOps, BgOp(IF msgs[i].action = "getFeedData" THEN "get"
                                      ELSE "remove", i))
  /\ UNCHANGED <<cacheVars, store, csLoads, clock, asyncPc, asyncRet, popupCache,
                 lastPut, putCount, clearState, asyncClean, syncRet>>

\* The store serves the oldest call of the background script, whose
\* callback answers the message (lines 257-270 and 278-280).
BgServe ==
  /\ UNCHANGED <<sideVars, zipVars, exVars, cmVars>>
  /\ bgOps # <<>>
  /\ bgOps' = Tail(bgOps)
  /\ IF Head(bgOps).op = "get"
       THEN /\ msgs' = Answered(Head(bgOps).msg, store.hasFeed, "done")
            /\ UNCHANGED <<store, clearState>>
       ELSE /\ store' = StoreAfterRemove(store)
            /\ msgs' = Answered(Head(bgOps).msg, TRUE, "done")
            /\ clearState' = IF clearState = ClearIssued(Head(bgOps).msg) THEN ClearDone
                              ELSE clearState
  /\ UNCHANGED <<cacheVars, csLoads, clock, asyncPc, asyncRet, popupCache, lastPut,
                 putCount, asyncClean, syncRet>>

\* The store serves the oldest call of the content script: a write, or the
\* read of a warm-up load.
StoreServeCs ==
  /\ UNCHANGED <<sideVars, zipVars, exVars, cmVars>>
  /\ csOps # <<>>
  /\ csOps' = Tail(csOps)
  /\ IF Head(csOps).op = "set"
       THEN /\ store' = StoreAfterSet(store, Head(csOps))
            /\ UNCHANGED csLoads
       ELSE /\ csLoads' = Append(csLoads, StoredFeed(store))
            /\ UNCHANGED store
  /\ UNCHANGED <<cachedFeedData, clock, msgs, bgOps, asyncPc, asyncRet, popupCache,
                 lastPut, putCount, clearState, asyncClean, syncRet>>

\* getCachedFeedDataAsync after its await (lines 816-829), as the warm-up
\* load runs it, and the rest of loadCachedFeedDataFromStorage (844-846).
MemoryAfterLoad(mem, loaded) == IF loaded # NoFeed THEN loaded ELSE mem

CsLoadReply ==
  /\ UNCHANGED <<sideVars, zipVars, exVars, cmVars>>
  /\ csLoads # <<>>
  /\ csLoads' = Tail(csLoads)
  /\ cachedFeedData' = MemoryAfterLoad(cachedFeedData, Head(csLoads))
  /\ UNCHANGED <<csOps, store, clock, msgs, bgOps, asyncPc, asyncRet, popupCache,
                 lastPut, putCount, clearState, asyncClean, syncRet>>

\* getCachedFeedDataAsync of the popup (part_006 line 150) is called.
PopupGetAsyncStart ==
  /\ UNCHANGED <<sideVars, zipVars, exVars, cmVars>>
  /\ asyncPc \in {"idle", "returned"}
  /\ asyncPc' = "pending"
  /\ asyncRet' = NoFeed
  /\ asyncClean' = (clearState = ClearDone)
  /\ UNCHANGED <<cacheVars, store, csLoads, clock, msgs, bgOps, popupCache, lastPut,
                 putCount, clearState, syncRet>>

\* The store serves its get and the function returns (lines 811-833).
PopupGetAsyncDone ==
  /\ UNCHANGED <<sideVars, zipVars, exVars, cmVars>>
  /\ asyncPc = "pending"
  /\ asyncPc' = "returned"
  /\ asyncRet' = StoredFeed(store)
  /\ popupCache' = MemoryAfterLoad(popupCache, StoredFeed(store))
  /\ UNCHANGED <<cacheVars, store, csLoads, clock, msgs, bgOps, lastPut, putCount,
                 clearState, asyncClean, syncRet>>

CacheNext ==
  \/ CsIntercepted
  \/ CsManualInjection
  \/ MsgSend
  \/ CsReceiveData
  \/ CsReceiveNoteContent
  \/ CsReceiveMedia
  \/ CsMediaRun
  \/ CsMediaDomDone
  \/ CsReceiveExtended
  \/ CsExtendedDone
  \/ BgReceive
  \/ BgServe
  \/ StoreServeCs
  \/ CsLoadReply
  \/ PopupGetAsyncStart
  \/ PopupGetAsyncDone

---------------------------------------------------------------------------
(* The handoff of the cached payload at the start of the content script    *)

\* setTimeout(..., 3000) of the retry.
RetryDelay == 3000

\* window.location.pathname.includes("/explore/") (part_005 line 93).
IncludesExplore(p) == \E i \in 1..(Len(p) - 1) : p[i].name = "explore"

\* The requests the handoff may still send after one that was answered
\* without success: one, when it was the first.
RetryAlways(pc) == "timer"
AfterFailure(pc) == IF pc = "first" THEN "timer" ELSE "done"

\* The start of main() on the page (lines 92-96): on a path with
\* "/explore/" the first getFeedData message is sent.
HoStart ==
  /\ UNCHANGED <<cacheVars, restVars, exVars, zipVars, cmVars, ftVars>>
  /\ hoPc = "idle"
  /\ IF IncludesExplore(path)
       THEN /\ hoPc' = "first"
            /\ hoRequests' = hoRequests + 1
            /\ hoBg' = "sent"
     ELSE /\ hoPc' = "done"
          /\ UNCHANGED <<hoRequests, hoBg>>
  /\ UNCHANGED <<hoWaited, hoReply, hoAnswers>>

\* The getFeedData handler of the background script (part_004 lines
\* 254-273): the store serves its get and the callback answers.
HoBgGet ==
  /\ UNCHANGED <<cacheVars, restVars, exVars, zipVars, cmVars, ftVars>>
  /\ hoBg = "sent"
  /\ hoBg' = "answered"
  /\ hoReply' = StoredFeed(store)
  /\ UNCHANGED <<hoPc, hoRequests, hoWaited, hoAnswers>>

\* sendMessage rejects: nothing receives the message.
HoReject ==
  /\ UNCHANGED <<cacheVars, restVars, exVars, zipVars, cmVars, ftVars>>
  /\ hoBg = "sent"
  /\ hoBg' = "rejected"
  /\ UNCHANGED <<hoPc, hoRequests, hoWaited, hoReply, hoAnswers>>

\* The then and catch of a request (lines 96-117): a successful answer is
\* cached with setCachedFeedData (a throw of its log is swallowed by the
\* catch), an answer without success to the first request sets the timer,
\* a rejection ends the handoff.
HoAnswer ==
  /\ UNCHANGED <<zipVars, exVars, cmVars, ftVars>>
  /\ hoPc \in {"first", "second"}
  /\ hoBg \in {"answered", "rejected"}
  /\ hoBg' = "none"
  /\ hoReply' = NoFeed
  /\ IF hoBg = "rejected"
       THEN /\ hoAnswers' = Append(hoAnswers, "rejected")
            /\ hoPc' = "done"
            /\ UNCHANGED <<hoWaited, cachedFeedData, csOps, clock, clearState, asyncClean>>
     ELSE IF hoReply # NoFeed
       THEN /\ hoAnswers' = Append(hoAnswers, "success")
            /\ hoPc' = "done"
            /\ cachedFeedData' = MemoryAfterPut(cachedFeedData, hoReply)
            /\ csOps' = OpsAfterPut(csOps, hoReply, clock)
            /\ clock' = clock + 1
            /\ clearState' = ClearNone
            /\ asyncClean' = FALSE
            /\ UNCHANGED hoWaited
     ELSE /\ hoAnswers' = Append(hoAnswers, "failure")
          /\ hoPc' = AfterFailure(hoPc)
          /\ hoWaited' = IF AfterFailure(hoPc) = "timer" THEN 0 ELSE hoWaited
          /\ UNCHANGED <<cachedFeedData, csOps, clock, clearState, asyncClean>>
  /\ UNCHANGED <<hoRequests, store, csLoads, msgs, bgOps, asyncPc, asyncRet, popupCache,
                 lastPut, putCount, syncRet>>

\* The timer fires once the delay has gone by (lines 101-112): the second
\* getFeedData message is sent.
HoTimer ==
  /\ UNCHANGED <<cacheVars, restVars, exVars, zipVars, cmVars, ftVars>>
  /\ hoPc = "timer"
  /\ hoWaited' = RetryDelay
  /\ hoPc' = "second"
  /\ hoRequests' = hoRequests + 1
  /\ hoBg' = "sent"
  /\ UNCHANGED <<hoReply, hoAnswers>>

HandoffNext ==
  \/ HoStart
  \/ HoBgGet
  \/ HoReject
  \/ HoAnswer
  \/ HoTimer
  \/ CsIntercepted
  \/ CsManualInjection
  \/ MsgSend
  \/ CsReceiveData
  \/ CsReceiveNoteContent
  \/ BgReceive
  \/ BgServe
  \/ StoreServeCs
  \/ CsLoadReply

---------------------------------------------------------------------------
(* Comments and the extended content                                       *)

\* The largest number of comments of a response of the comment API.
MaxComments == 4
\* The largest number of replies under one comment.
MaxReplies == 2

Reply(author, content) == [author |-> author, content |-> content]
CommentItem(id, author, content, replies) ==
  [id |-> id, author |-> author, content |-> content, replies |-> replies]

\* One comment of ApiCommentResponse.data.comments; a response can leave
\* user_info and sub_comments out.
ApiSub(j) == [nickname |-> "replier" \o ToString(j), content |-> "reply " \o ToString(j)]
ApiComment(i, hasUser, hasSubs, nSubs) ==
  [id |-> "c" \o ToString(i), hasUser |-> hasUser, nickname |-> "user" \o ToString(i),
   content |-> "comment " \o ToString(i), hasSubs |-> hasSubs,
   sub_comments |-> [j \in 1..nSubs |-> ApiSub(j)]]

\* What the fetch of the comment API comes to: a rejected fetch, a response
\* that is not ok, a body that is no JSON, or a parsed body.
ApiBody(hasData, comments) == [kind |-> "body", hasData |-> hasData, comments |-> comments]
ApiFailure(kind) == [kind |-> kind, hasData |-> FALSE, comments |-> <<>>]
NoApiCall == ApiFailure("none")

ApiCommentLists ==
  UNION {{[i \in 1..n |-> ApiComment(i, TRUE, TRUE, r[i])] : r \in [1..n -> 0..MaxReplies]}
           : n \in 0..MaxComments}

ApiOutcomes ==
  {ApiFailure("network_error"), ApiFailure("http_error"), ApiFailure("bad_json"),
   ApiBody(FALSE, <<>>),
   ApiBody(TRUE, <<ApiComment(1, TRUE, FALSE, 0)>>),
   ApiBody(TRUE, <<ApiComment(1, TRUE, TRUE, 1), ApiComment(2, FALSE, TRUE, 0)>>)}
  \cup {ApiBody(TRUE, cs) : cs \in ApiCommentLists}

\* parseApiComments (lines 880-898): reading user_info.nickname of a
\* comment without user_info is a TypeError.
ParseThrows(body) ==
  body.hasData /\ \E i \in 1..Len(body.comments) : ~body.comments[i].hasUser

parseApiComments(body) ==
  IF ~body.hasData THEN <<>>
  ELSE [i \in 1..Len(body.comments) |->
          LET c == body.comments[i]
          IN  CommentItem(c.id, c.nickname, c.content,
                          IF c.hasSubs
                            THEN [j \in 1..Len(c.sub_comments) |->
                                    Reply(c.sub_comments[j].nickname,
                                          c.sub_comments[j].content)]
                          ELSE <<>>)]

\* if (!xsecToken) return [] (lines 903-909): the fetches one call of
\* fetchCommentsDirectly makes.
RequestsAlways(token) == 1
RequestsWithRetry(token) == IF token = "value" THEN 2 ELSE 0
RequestsIssued(token) == IF token = "value" THEN 1 ELSE 0

\* fetchCommentsDirectly (lines 901-933) once the API has answered: every
\* failure ends in its catch, which returns [].
fetchCommentsDirectly(token, outcome) ==
  IF RequestsIssued(token) = 0 THEN <<>>
  ELSE IF outcome.kind # "body" THEN <<>>
  ELSE IF ParseThrows(outcome) THEN <<>>
  ELSE parseApiComments(outcome)

\* Lines 939-943: the three comment selectors.
CommentSelectors == 3
\* Line 950: a comment has more than 5 characters.
MinCommentLength == 5
Anonymous == "anonymous"   \* the placeholder of the author of a comment

\* A comment element of the document: its text, the text of its author
\* element, and the comment selectors that match it.
CommentEl(text, author, sels) == [text |-> text, author |-> author, sels |-> sels]

\* elements.forEach((element, index) => ...) of one selector (lines
\* 946-966): index counts the elements the selector matches, from 0.
CommentsOfSelector(doc, sel) ==
  LET Matches(e) == sel \in e.sels
      els == SelectSeq(doc, Matches)
      all == [k \in 1..Len(els) |->
                CommentItem("dom_" \o ToString(k - 1),
                            OrElse(Trim(els[k].author), Anonymous),
                            Trim(els[k].text), <<>>)]
      Kept(c) == c.content # "" /\ Len(c.content) > MinCommentLength
  IN  SelectSeq(all, Kept)

\* extractCommentsFromDOM (lines 936-970): every selector is run, and what
\* each finds is pushed.
RECURSIVE CommentsUpTo(_, _)
CommentsUpTo(doc, sel) ==
  IF sel = 0 THEN <<>>
  ELSE CommentsUpTo(doc, sel - 1) \o CommentsOfSelector(doc, sel)

extractCommentsFromDOM(doc) == CommentsUpTo(doc, CommentSelectors)

CommentDocs ==
  { <<>>,
    <<CommentEl("great note, thanks", "Ann", {1, 3})>>,
    <<CommentEl("great note, thanks", "Ann", {3}), CommentEl("ok", NoElement, {3}),
      CommentEl("I agree with this", NoElement, {3})>>,
    <<CommentEl("I agree with this", " ", {2, 3}),
      CommentEl("great note, thanks", "Ann", {1, 3})>>,
    <<CommentEl(" ", NoElement, {2, 3})>> }

\* The documents extractNoteContent reads in the extended extraction.
AuthorOnlyDom == [EmptyContentDom EXCEPT !.authors[1] = "Nick"]
BaseDoms == {EmptyContentDom, AuthorOnlyDom}

\* return {...baseContent, wordCount, charCount, comments, extractedAt}
\* (lines 1001 and 1010-1016): null exactly without base content.
ExtendedNullWithoutComments(base, comments) ==
  IF base.found /\ comments # <<>> THEN "value" ELSE "null"
ExtendedResult(base, comments) == IF base.found THEN "value" ELSE "null"

\* Line 576 of the popup: comments.slice(0, 3).
PreviewLimit == 3

\* extendedContent.comments.forEach (line 316 of the popup, line 221 of
\* downloadAsZip): the comments an export goes through.
ExportedFirstThree(comments) ==
  SubSeq(comments, 1, IF Len(comments) < PreviewLimit THEN Len(comments) ELSE PreviewLimit)
ExportedComments(comments) == comments

\* The lines of the text report that stand for comments and replies (popup
\* lines 316-331, downloadAsZip lines 221-237): per comment its number,
\* author and content, then one line per reply.
ReportReplies(replies) ==
  [j \in 1..Len(replies) |->
     [kind |-> "reply", n |-> j, author |-> replies[j].author,
      content |-> replies[j].content]]

RECURSIVE ReportFrom(_, _)
ReportFrom(comments, i) ==
  IF i > Len(comments) THEN <<>>
  ELSE <<[kind |-> "comment", n |-> i, author |-> comments[i].author,
          content |-> comments[i].content]>>
       \o ReportReplies(comments[i].replies)
       \o ReportFrom(comments, i + 1)

ReportEntries(comments) == ReportFrom(ExportedComments(comments), 1)

\* JSON.stringify(extendedContent, null, 2) (popup line 348): the objects of
\* the comments array and of their replies arrays, in the order of the text.
RECURSIVE JsonFrom(_, _)
JsonFrom(comments, i) ==
  IF i > Len(comments) THEN <<>>
  ELSE <<[kind |-> "comment", id |-> comments[i].id, author |-> comments[i].author,
          content |-> comments[i].content]>>
       \o [j \in 1..Len(comments[i].replies) |->
             [kind |-> "reply", id |-> "", author |-> comments[i].replies[j].author,
              content |-> comments[i].replies[j].content]]
       \o JsonFrom(comments, i + 1)

JsonEntries(comments) == JsonFrom(comments, 1)

\* The comments of the preview (popup lines 576-599).
PreviewComments(comments) ==
  SubSeq(comments, 1, IF Len(comments) < PreviewLimit THEN Len(comments) ELSE PreviewLimit)

NotExported == [done |-> FALSE, entries |-> <<>>]
Exported(entries) == [done |-> TRUE, entries |-> entries]

CmIdle ==
  /\ cmPc = "idle"
  /\ cmBase = [found |-> FALSE, note |-> NoNote]
  /\ cmRequests = 0
  /\ cmApi = NoApiCall
  /\ cmDoc = <<>>
  /\ cmComments = <<>>
  /\ cmTried = <<>>
  /\ cmRet = "none"
  /\ xpReport = NotExported
  /\ xpJson = NotExported
  /\ xpPreview = NotExported

CmInit ==
  /\ CmIdle
  /\ cmToken = "absent"

\* extractExtendedNoteContent (lines 997-1008) and extractComments (lines
\* 973-982) up to the fetch of fetchCommentsDirectly.
CmStart ==
  /\ UNCHANGED <<sideVars, zipVars, exVars, restVars>>
  /\ cmPc = "idle"
  /\ csOps' = OpsAfterGetCached(csOps)
  /\ \E d \in BaseDoms :
       LET fromCache == IF cachedFeedData = NoFeed THEN [found |-> FALSE, note |-> NoNote]
                        ELSE parseNoteContentFromFeed(cachedFeedData, path, Href(path))
           base == IF fromCache.found THEN fromCache
                   ELSE extractNoteContentFromDOM(d, Href(path))
       IN  /\ cmBase' = base
           /\ IF ~base.found \/ extractNoteId(path) = Null
                THEN /\ cmRet' = ExtendedResult(base, <<>>)
                     /\ cmPc' = "done"
                     /\ UNCHANGED <<cmRequests, cmTried>>
              ELSE /\ cmRet' = "none"
                   /\ cmTried' = <<"api">>
                   /\ cmRequests' = cmRequests + RequestsIssued(cmToken)
                   /\ cmPc' = IF RequestsIssued(cmToken) = 0 THEN "dom" ELSE "api"
  /\ UNCHANGED <<cachedFeedData, cmToken, cmApi, cmDoc, cmComments, xpReport, xpJson,
                 xpPreview>>

\* The comment API has answered (lines 923-932), and extractComments takes
\* a list that is not empty (lines 982-986).
CmApiAnswer ==
  /\ UNCHANGED <<sideVars, zipVars, exVars, restVars, cacheVars>>
  /\ cmPc = "api"
  /\ \E outcome \in ApiOutcomes :
       /\ cmApi' = outcome
       /\ IF fetchCommentsDirectly(cmToken, outcome) # <<>>
            THEN /\ cmComments' = fetchCommentsDirectly(cmToken, outcome)
                 /\ cmRet' = ExtendedResult(cmBase, fetchCommentsDirectly(cmToken, outcome))
                 /\ cmPc' = "done"
          ELSE /\ cmPc' = "dom"
               /\ UNCHANGED <<cmComments, cmRet>>
  /\ UNCHANGED <<cmToken, cmBase, cmRequests, cmDoc, cmTried, xpReport, xpJson,
                 xpPreview>>

\* Lines 991-993 and 1010-1016: the fallback, and the result.
CmDomComments ==
  /\ UNCHANGED <<sideVars, zipVars, exVars, restVars, cacheVars>>
  /\ cmPc = "dom"
  /\ \E doc \in CommentDocs :
       /\ cmDoc' = doc
       /\ cmComments' = extractCommentsFromDOM(doc)
       /\ cmRet' = ExtendedResult(cmBase, extractCommentsFromDOM(doc))
  /\ cmTried' = Append(cmTried, "dom")
  /\ cmPc' = "done"
  /\ UNCHANGED <<cmToken, cmBase, cmRequests, cmApi, xpReport, xpJson, xpPreview>>

\* downloadExtendedContent of the popup (lines 307-343).
XpDownloadReport ==
  /\ UNCHANGED <<sideVars, zipVars, exVars, restVars, cacheVars>>
  /\ cmPc = "done" /\ cmRet = "value"
  /\ xpReport' = Exported(ReportEntries(cmComments))
  /\ UNCHANGED <<cmPc, cmToken, cmBase, cmRequests, cmApi, cmDoc, cmComments, cmTried,
                 cmRet, xpJson, xpPreview>>

\* downloadExtendedAsJson of the popup (lines 345-358).
XpDownloadJson ==
  /\ UNCHANGED <<sideVars, zipVars, exVars, restVars, cacheVars>>
  /\ cmPc = "done" /\ cmRet = "value"
  /\ xpJson' = Exported(JsonEntries(cmComments))
  /\ UNCHANGED <<cmPc, cmToken, cmBase, cmRequests, cmApi, cmDoc, cmComments, cmTried,
                 cmRet, xpReport, xpPreview>>

\* The popup shows the extended content (lines 562-602).
XpShowPreview ==
  /\ UNCHANGED <<sideVars, zipVars, exVars, restVars, cacheVars>>
  /\ cmPc = "done" /\ cmRet = "value"
  /\ xpPreview' = Exported(PreviewComments(cmComments))
  /\ UNCHANGED <<cmPc, cmToken, cmBase, cmRequests, cmApi, cmDoc, cmComments, cmTried,
                 cmRet, xpReport, xpJson>>

CmNext ==
  \/ CmStart
  \/ CmApiAnswer
  \/ CmDomComments
  \/ XpDownloadReport
  \/ XpDownloadJson
  \/ XpShowPreview

---------------------------------------------------------------------------
(* The fetch override of the main-world script                             *)

\* The calls of fetch of the page in one behaviour.
MaxFetches == 2

\* The first argument of a call: the string of a feed API url, another
\* string, or a Request object for the feed API.
FetchUrls == {"feed", "other", "request"}

\* if (url && typeof url === "string" && url.includes("/api/sns/web/v1/feed"))
\* (lines 14-18).
Intercepted(url) == url = "feed"

\* What the page gets from the override: the response of its n-th call of
\* originalFetch, whose body nobody has read, or the error of that call.
PageResponse(n) == [kind |-> "response", request |-> n, bodyUsed |-> FALSE]
PageError(n) == [kind |-> "error", request |-> n, bodyUsed |-> FALSE]

\* The catch of lines 39-41: return originalFetch.apply(this, args).
FallbackRequests(requests) == requests + 1

FetchDone(url, requests, events, result) ==
  [url |-> url, requests |-> requests, events |-> events, result |-> result]

\* The page calls fetch (lines 11-20 and 44): originalFetch is called.
FtCall ==
  /\ UNCHANGED <<cacheVars, restVars, exVars, zipVars, cmVars, hoVars>>
  /\ ftPc = "idle"
  /\ ftCalls < MaxFetches
  /\ ftCalls' = ftCalls + 1
  /\ \E url \in FetchUrls :
       /\ ftUrl' = url
       /\ ftPc' = IF Intercepted(url) THEN "first" ELSE "plain"
  /\ ftRequests' = 1
  /\ ftEvents' = 0
  /\ ftResult' = NoResult
  /\ UNCHANGED ftLog

\* A call that is not intercepted returns the promise of originalFetch
\* (line 44): the page gets its response or its error.
FtPlainAnswer ==
  /\ UNCHANGED <<cacheVars, restVars, exVars, zipVars, cmVars, hoVars>>
  /\ ftPc = "plain"
  /\ \E ok \in BOOLEAN :
       ftResult' = IF ok THEN PageResponse(ftRequests) ELSE PageError(ftRequests)
  /\ ftPc' = "done"
  /\ UNCHANGED <<ftUrl, ftRequests, ftEvents, ftCalls, ftLog>>

\* The first request of an intercepted call is answered (lines 20-24): a
\* response is cloned and the clone's json() awaited; a rejection goes to
\* the catch, which calls originalFetch again.
FtFirstAnswer ==
  /\ UNCHANGED <<cacheVars, restVars, exVars, zipVars, cmVars, hoVars>>
  /\ ftPc = "first"
  /\ \E ok \in BOOLEAN :
       IF ok THEN /\ ftPc' = "json"
                  /\ UNCHANGED ftRequests
       ELSE /\ ftPc' = "second"
            /\ ftRequests' = FallbackRequests(ftRequests)
  /\ UNCHANGED <<ftUrl, ftEvents, ftResult, ftCalls, ftLog>>

\* clonedResponse.json() settles (lines 24-38): with a body that parses the
\* event is dispatched and the response returned; with one that does not,
\* the catch calls originalFetch again.
FtJson ==
  /\ UNCHANGED <<cacheVars, restVars, exVars, zipVars, cmVars, hoVars>>
  /\ ftPc = "json"
  /\ \E parses \in BOOLEAN :
       IF parses THEN /\ ftEvents' = ftEvents + 1
                      /\ ftResult' = PageResponse(1)
                      /\ ftPc' = "done"
                      /\ UNCHANGED ftRequests
       ELSE /\ ftPc' = "second"
            /\ ftRequests' = FallbackRequests(ftRequests)
            /\ UNCHANGED <<ftEvents, ftResult>>
  /\ UNCHANGED <<ftUrl, ftCalls, ftLog>>

\* The request of the catch is answered (line 40); the page gets it.
FtSecondAnswer ==
  /\ UNCHANGED <<cacheVars, restVars, exVars, zipVars, cmVars, hoVars>>
  /\ ftPc = "second"
  /\ \E ok \in BOOLEAN :
       ftResult' = IF ok THEN PageResponse(ftRequests) ELSE PageError(ftRequests)
  /\ ftPc' = "done"
  /\ UNCHANGED <<ftUrl, ftRequests, ftEvents, ftCalls, ftLog>>

\* The page has its answer; it can call fetch again.
FtReturn ==
  /\ UNCHANGED <<cacheVars, restVars, exVars, zipVars, cmVars, hoVars>>
  /\ ftPc = "done"
  /\ ftLog' = Append(ftLog, FetchDone(ftUrl, ftRequests, ftEvents, ftResult))
  /\ ftPc' = "idle"
  /\ ftUrl' = "none"
  /\ ftRequests' = 0
  /\ ftEvents' = 0
  /\ ftResult' = NoResult
  /\ UNCHANGED ftCalls

FetchNext ==
  \/ FtCall
  \/ FtPlainAnswer
  \/ FtFirstAnswer
  \/ FtJson
  \/ FtSecondAnswer
  \/ FtReturn

---------------------------------------------------------------------------
(* Packaging: MediaDownloader.downloadAsZip                                *)

\* The largest number of images of one batch of media items.
MaxImages == 2

ImageItem(i) == [type |-> "image", filename |-> ImageName(i, "jpg")]
VideoItem == [type |-> "video", filename |-> VideoName]

\* The batches downloadAsZip is called with: what an extraction returns, k
\* images and then at most one video.
MediaBatches ==
  LET imgs(k) == [i \in 1..k |-> ImageItem(i)]
  IN  {imgs(k) : k \in 0..MaxImages} \cup
      {Append(imgs(k), VideoItem) : k \in 0..MaxImages}

\* What the fetch of one media item can come to (lines 184-195): a response
\* whose blob is read, a rejected fetch, a response that is not ok, a blob()
\* that rejects.
FetchOutcomes == {"ok", "network_error", "http_error", "blob_error"}

Progress(c, t, s) == [current |-> c, total |-> t, status |-> s]

\* const total = mediaItems.length + (hasContent ? 1 : 0)
ZipTotalNoContent(items, hasContent) == Len(items)
ZipTotal(items, hasContent) == Len(items) + (IF hasContent THEN 1 ELSE 0)

\* hasContent = extendedContent != null || noteContent != null
HasContent(ext, note) == ext \/ note

\* The name of the text entry (lines 241 and 245).
ContentEntry(ext) ==
  IF ext THEN "xiaohongshu_complete_content.txt" ELSE "xiaohongshu_content.txt"

\* The index the loop goes on with after the fetch of item i failed: the inner
\* catch only logs, the loop continues with the next item.
AbortBatch(i, n) == n
AfterFailedItem(i, n) == i

\* The progress reported when the archive was generated and saved (line 265).
CompleteKeepsCurrent(current, total) == Progress(current, total, "complete")
CompleteProgress(current, total) == Progress(total, total, "complete")

\* The progress reported by the outer catch (line 269).
ErrorProgress == Progress(0, 0, "error")

ZipInit ==
  /\ zipPc = "idle"
  /\ zipItems = <<>>
  /\ zipExtended = FALSE
  /\ zipNote = FALSE
  /\ zipIdx = 0
  /\ zipFiles = {}
  /\ zipCurrent = 0
  /\ zipTotal = 0
  /\ zipProgress = <<>>
  /\ zipFetched = <<>>
  /\ zipRet = "none"

\* Lines 171-178: the call, up to the first callback.
ZipStart ==
  /\ UNCHANGED <<cacheVars, restVars, exVars, cmVars, sideVars>>
  /\ zipPc = "idle"
  /\ \E items \in MediaBatches, ext \in BOOLEAN, note \in BOOLEAN :
       /\ zipItems' = items
       /\ zipExtended' = ext
       /\ zipNote' = note
       /\ zipTotal' = ZipTotal(items, HasContent(ext, note))
       /\ zipProgress' =
            <<Progress(0, ZipTotal(items, HasContent(ext, note)), "downloading")>>
  /\ zipCurrent' = 0
  /\ zipIdx' = 0
  /\ zipFiles' = {}
  /\ zipFetched' = <<>>
  /\ zipRet' = "none"
  /\ zipPc' = "loop"

\* Lines 181-200: one iteration of the loop whose fetch and blob() succeed.
ZipItemOk ==
  /\ UNCHANGED <<cacheVars, restVars, exVars, cmVars, sideVars>>
  /\ zipPc = "loop"
  /\ zipIdx < Len(zipItems)
  /\ zipFiles' = zipFiles \cup {zipItems[zipIdx + 1].filename}
  /\ zipCurrent' = zipCurrent + 1
  /\ zipProgress' =
       Append(zipProgress, Progress(zipCurrent + 1, zipTotal, "downloading"))
  /\ zipFetched' = Append(zipFetched, "ok")
  /\ zipIdx' = zipIdx + 1
  /\ UNCHANGED <<zipPc, zipItems, zipExtended, zipNote, zipTotal, zipRet>>

\* Lines 181-204: one iteration whose fetch fails; the inner catch logs it.
ZipItemFail ==
  /\ UNCHANGED <<cacheVars, restVars, exVars, cmVars, sideVars>>
  /\ zipPc = "loop"
  /\ zipIdx < Len(zipItems)
  /\ \E o \in FetchOutcomes \ {"ok"} : zipFetched' = Append(zipFetched, o)
  /\ zipIdx' = AfterFailedItem(zipIdx + 1, Len(zipItems))
  /\ UNCHANGED <<zipPc, zipItems, zipExtended, zipNote, zipFiles, zipCurrent,
                 zipTotal, zipProgress, zipRet>>

\* Line 205: the loop is through.
ZipLoopEnd ==
  /\ UNCHANGED <<cacheVars, restVars, exVars, cmVars, sideVars>>
  /\ zipPc = "loop"
  /\ zipIdx >= Len(zipItems)
  /\ zipPc' = "content"
  /\ UNCHANGED <<zipItems, zipExtended, zipNote, zipIdx, zipFiles, zipCurrent,
                 zipTotal, zipProgress, zipFetched, zipRet>>

\* Lines 207-253: the text entry, when there is content.
ZipContent ==
  /\ UNCHANGED <<cacheVars, restVars, exVars, cmVars, sideVars>>
  /\ zipPc = "content"
  /\ IF HasContent(zipExtended, zipNote)
       THEN /\ zipFiles' = zipFiles \cup {ContentEntry(zipExtended)}
            /\ zipCurrent' = zipCurrent + 1
            /\ zipProgress' =
                 Append(zipProgress,
                        Progress(zipCurrent + 1, zipTotal, "downloading"))
       ELSE UNCHANGED <<zipFiles, zipCurrent, zipProgress>>
  /\ zipPc' = "generate"
  /\ UNCHANGED <<zipItems, zipExtended, zipNote, zipIdx, zipTotal, zipFetched,
                 zipRet>>

\* Lines 255-266: the archive is generated and saved.
ZipGenerateOk ==
  /\ UNCHANGED <<cacheVars, restVars, exVars, cmVars, sideVars>>
  /\ zipPc = "generate"
  /\ zipProgress' = Append(zipProgress, CompleteProgress(zipCurrent, zipTotal))
  /\ zipRet' = "true"
  /\ zipPc' = "done"
  /\ UNCHANGED <<zipItems, zipExtended, zipNote, zipIdx, zipFiles, zipCurrent,
                 zipTotal, zipFetched>>

\* Lines 256 and 267-270: generateAsync rejects, the outer catch reports it.
ZipGenerateFail ==
  /\ UNCHANGED <<cacheVars, restVars, exVars, cmVars, sideVars>>
  /\ zipPc = "generate"
  /\ zipProgress' = Append(zipProgress, ErrorProgress)
  /\ zipRet' = "false"
  /\ zipPc' = "done"
  /\ UNCHANGED <<zipItems, zipExtended, zipNote, zipIdx, zipFiles, zipCurrent,
                 zipTotal, zipFetched>>

ZipNext ==
  \/ ZipStart
  \/ ZipItemOk
  \/ ZipItemFail
  \/ ZipLoopEnd
  \/ ZipContent
  \/ ZipGenerateOk
  \/ ZipGenerateFail

---------------------------------------------------------------------------
(* The specifications                                                      *)

\* Packaging alone.
InitZip ==
  /\ ZipInit
  /\ FtInit
  /\ HoInit
  /\ ExInit
  /\ path = <<>>
  /\ CacheInit
  /\ store = EmptyStore
  /\ CmInit

SpecZip == InitZip /\ [][ZipNext]_vars

\* The extraction chains on a page whose cache holds any payload that passed
\* the acceptance check, or nothing; nothing is in the store.
InitExtract ==
  /\ ZipInit
  /\ FtInit
  /\ HoInit
  /\ ExInit
  /\ cachedFeedData \in UsableFeeds \cup {NoFeed}
  /\ csOps = <<>>
  /\ csLoads = <<>>
  /\ clock = 1
  /\ msgs = <<>>
  /\ bgOps = <<>>
  /\ asyncPc = "idle"
  /\ asyncRet = NoFeed
  /\ popupCache = NoFeed
  /\ lastPut = cachedFeedData
  /\ putCount = 0
  /\ clearState = [state |-> "none", msg |-> 0]
  /\ asyncClean = FALSE
  /\ syncRet = NoSyncCall
  /\ store = EmptyStore
  /\ CmInit

SpecExtract == InitExtract /\ [][ExNext]_vars

\* The cache of the content script of a note page, the store (which may
\* hold the payload of an earlier page), the message handlers and the popup.
InitCache ==
  /\ ZipInit
  /\ FtInit
  /\ HoInit
  /\ ExInit
  /\ path = NotePath
  /\ CacheInit
  /\ store \in {EmptyStore, Stored(OldFeed, 0)}
  /\ CmInit

SpecCache == InitCache /\ [][CacheNext]_vars

\* The extended extraction on any page, with or without a cached payload
\* and a session token, and the exports of the popup of its result.
InitComments ==
  /\ ZipInit
  /\ FtInit
  /\ HoInit
  /\ ExInit
  /\ cachedFeedData \in {NoFeed, FeedA, FeedB}
  /\ csOps = <<>>
  /\ csLoads = <<>>
  /\ clock = 1
  /\ msgs = <<>>
  /\ bgOps = <<>>
  /\ asyncPc = "idle"
  /\ asyncRet = NoFeed
  /\ popupCache = NoFeed
  /\ lastPut = cachedFeedData
  /\ putCount = 0
  /\ clearState = [state |-> "none", msg |-> 0]
  /\ asyncClean = FALSE
  /\ syncRet = NoSyncCall
  /\ store = EmptyStore
  /\ CmIdle
  /\ cmToken \in {"absent", "empty", "value"}

SpecComments == InitComments /\ [][CmNext]_vars

\* The three extractions of the content script on one page, in any order
\* and interleaving, with or without a cached payload.
InitCalls ==
  /\ ZipInit
  /\ FtInit
  /\ HoInit
  /\ ExInit
  /\ cachedFeedData \in {NoFeed, FeedA}
  /\ csOps = <<>>
  /\ csLoads = <<>>
  /\ clock = 1
  /\ msgs = <<>>
  /\ bgOps = <<>>
  /\ asyncPc = "idle"
  /\ asyncRet = NoFeed
  /\ popupCache = NoFeed
  /\ lastPut = cachedFeedData
  /\ putCount = 0
  /\ clearState = [state |-> "none", msg |-> 0]
  /\ asyncClean = FALSE
  /\ syncRet = NoSyncCall
  /\ store = EmptyStore
  /\ CmIdle
  /\ cmToken \in {"absent", "value"}

CallsNext ==
  \/ ExMediaStart
  \/ ExMediaFetch
  \/ ExMediaPoll
  \/ ExMediaSettle
  \/ ExMediaDom
  \/ ExNoteContent
  \/ ExReturn
  \/ CmStart
  \/ CmApiAnswer
  \/ CmDomComments

SpecCalls == InitCalls /\ [][CallsNext]_vars

\* The page's calls of fetch through the override of the injected script.
InitFetch ==
  /\ ZipInit
  /\ FtInit
  /\ HoInit
  /\ ExInit
  /\ path = NotePath
  /\ CacheInit
  /\ store = EmptyStore
  /\ CmInit

SpecFetch == InitFetch /\ [][FetchNext]_vars

\* The start of the content script on any page: the handoff, the listeners
\* of the content script, the background script and the store, which may
\* hold the payload of an earlier page.
InitHandoff ==
  /\ ZipInit
  /\ FtInit
  /\ HoInit
  /\ ExInit
  /\ path \in {NotePath, <<Seg("user", ""), Seg("b2", "b2")>>}
  /\ CacheInit
  /\ store \in {EmptyStore, Stored(OldFeed, 0)}
  /\ CmInit

SpecHandoff == InitHandoff /\ [][HandoffNext]_vars

---------------------------------------------------------------------------
(* Extraction: the claims                                                  *)

\* The list the cache strategy derives for the running extraction.
CacheDerived == IF exRead = NoFeed THEN <<>> ELSE parseMediaFromFeed(exRead, path)

\* C1: extractMediaFromPage never throws to its caller: whatever the cached
\* payload that passed the acceptance check and whatever the document, a
\* finished call has returned a list.
C1_NeverThrows ==
  (exOp = "media" /\ exPc = "done") => exOutcome = "returned"

\* C2: the result of extractMediaFromPage is the output of the first
\* accepting strategy: the cache-derived list when it is non-empty, and
\* otherwise (the fresh fetch yields nothing) the list of the DOM
\* extraction, which is never skipped when the earlier strategies reject.
C2_FirstAcceptingStrategy ==
  (exOp = "media" /\ exPc = "done") =>
    IF CacheDerived # <<>>
      THEN exOutcome = "returned" /\ exMedia = CacheDerived /\ exTried = <<"cache">>
    ELSE /\ exOutcome = "returned"
         /\ exTried = <<"cache", "fetch", "dom">>
         /\ exMedia = extractMediaFromPageDOM(exDomMedia)

\* The cached payload holds an item of the page's identifier whose kind is
\* "note".
CacheHoldsNote ==
  /\ exRead # NoFeed
  /\ extractNoteId(path) # Null
  /\ \E i \in 1..Len(exRead.items) :
       /\ exRead.items[i].hasCard
       /\ exRead.items[i].note_card.note_id = extractNoteId(path)
       /\ exRead.items[i].model_type = "note"

\* C10: extractNoteContent returns the cache-derived content iff the cached
\* payload holds an item of the page's identifier whose kind is "note"; in
\* every other case it returns the result of the DOM normalizer, which is
\* null only when title, author and content are all empty.
C10_NoteContentSource ==
  (exOp = "note" /\ exPc = "done") =>
    /\ (exTried = <<"cache">>) <=> CacheHoldsNote
    /\ exTried # <<"cache">> =>
         /\ exNote = extractNoteContentFromDOM(exDomContent, Href(path))
         /\ ~exNote.found =>
              /\ DomTitle(exDomContent) = ""
              /\ DomAuthor(exDomContent) = ""
              /\ DomContent(exDomContent) = ""

\* C11: a non-null result of extractNoteContent has no empty field: title,
\* author and content are text or their placeholder, and url is the
\* location of the page, whether the cache or the document produced it.
C11_NoEmptyField ==
  (exOp = "note" /\ exPc = "done" /\ exNote.found) =>
    /\ exNote.note.title # ""
    /\ exNote.note.author # ""
    /\ exNote.note.content # ""
    /\ exNote.note.url # ""

\* The document gave an author only: title and content are placeholders.
C11_Witness ==
  /\ exOp = "note" /\ exPc = "done" /\ exNote.found
  /\ exTried = <<"cache", "dom">>
  /\ exNote.note.title = Untitled
  /\ exNote.note.author = "Nick"
  /\ exNote.note.content = NoContent

\* The payload the running extraction read holds an item of the page's
\* identifier that items.find reaches, and its images are well-formed.
CardReached(feed) ==
  /\ feed # NoFeed
  /\ extractNoteId(path) # Null
  /\ feed.hasData
  /\ ~FindThrows(feed.items, extractNoteId(path))
  /\ FirstMatch(feed.items, extractNoteId(path)) # 0
  /\ ~ImagesThrow(feed.items[FirstMatch(feed.items, extractNoteId(path))].note_card)

ReadCard == exRead.items[FirstMatch(exRead.items, extractNoteId(path))].note_card
PutCard == lastPut.items[FirstMatch(lastPut.items, extractNoteId(path))].note_card

IsVideo(item) == item.type = "video"
IsImage(item) == item.type = "image"
VideoItems(list) == SelectSeq(list, IsVideo)
ImageItems(list) == SelectSeq(list, IsImage)

\* The entries of a stream list that no other entry exceeds in width*height.
Largest(streams) ==
  {k \in 1..Len(streams) : \A j \in 1..Len(streams) : Area(streams[j]) <= Area(streams[k])}

\* C16: for a well-formed video item with h264 streams, the extraction
\* returns from the cache exactly one video item, whose url is the
\* master_url, query parameters included, of an h264 entry of the largest
\* width*height, whatever the h265 entries are; an h265 entry is taken only
\* when there is no h264 entry.
C16_PrefersH264Largest ==
  (exOp = "media" /\ exPc = "done" /\ CardReached(exRead)
     /\ ReadCard.type = "video" /\ ReadCard.video.present) =>
    /\ Len(ReadCard.video.h264) > 0 =>
         /\ exOutcome = "returned" /\ exTried = <<"cache">>
         /\ Len(VideoItems(exMedia)) = 1
         /\ \E k \in Largest(ReadCard.video.h264) :
              VideoItems(exMedia)[1].url = ReadCard.video.h264[k].master_url
    /\ (Len(ReadCard.video.h264) = 0 /\ Len(ReadCard.video.h265) > 0) =>
         /\ exOutcome = "returned" /\ exTried = <<"cache">>
         /\ Len(VideoItems(exMedia)) = 1
         /\ \E k \in Largest(ReadCard.video.h265) :
              VideoItems(exMedia)[1].url = ReadCard.video.h265[k].master_url

\* Both families have entries and the largest entry of all is an h265 one.
C16_Witness ==
  /\ exOp = "media" /\ exPc = "done" /\ CardReached(exRead)
  /\ ReadCard.type = "video" /\ ReadCard.video.present
  /\ Len(ReadCard.video.h264) > 0 /\ Len(ReadCard.video.h265) > 0
  /\ \E j \in 1..Len(ReadCard.video.h265) : \A k \in 1..Len(ReadCard.video.h264) :
       Area(ReadCard.video.h265[j]) > Area(ReadCard.video.h264[k])
  /\ Len(VideoItems(exMedia)) = 1

\* The family of the payload as it was put that the normalizer takes.
PutStreams ==
  IF Len(PutCard.video.h264) > 0 THEN PutCard.video.h264 ELSE PutCard.video.h265

\* C17: among the entries of the chosen family that have the largest
\* width*height, the extraction takes the one that comes first in the order
\* of the payload as it was cached, in every extraction on that payload.
C17_FirstOfTies ==
  (exOp = "media" /\ exPc = "done" /\ CardReached(lastPut)
     /\ PutCard.type = "video" /\ PutCard.video.present /\ Len(PutStreams) > 0) =>
    /\ Len(VideoItems(exMedia)) = 1
    /\ VideoItems(exMedia)[1].url = PutStreams[MinOf(Largest(PutStreams))].master_url

\* The second extraction on a payload with two largest entries.
C17_Witness ==
  /\ exOp = "media" /\ exPc = "done" /\ CardReached(lastPut)
  /\ exCalls = 2
  /\ PutCard.type = "video" /\ PutCard.video.present
  /\ Cardinality(Largest(PutStreams)) = 2
  /\ exRead # lastPut
  /\ Len(VideoItems(exMedia)) = 1

\* The url the claim gives the image: the WB_DFT variant when there is one
\* and it is not empty, url_default otherwise.
ClaimedImageUrl(img) ==
  LET wb == {i \in 1..Len(img.info_list) :
               /\ img.info_list[i].image_scene = "WB_DFT"
               /\ img.info_list[i].url # <<>>
               /\ img.info_list[i].url # Undefined}
  IN  IF wb = {} THEN img.url_default ELSE img.info_list[MinOf(wb)].url

ClaimedExtension(url) ==
  CASE Includes(url, ".jpg") \/ Includes(url, ".jpeg") -> "jpg"
    [] Includes(url, ".png") -> "png"
    [] OTHER -> "webp"

\* C18: for a payload whose item of the page's identifier has a well-formed
\* image list of length N, the normalizer returns N image items in the
\* order of the list, the i-th named image_i.<ext> with the WB_DFT url when
\* there is one and url_default otherwise, <ext> following that url; the
\* extraction returns that list when it is not empty.
C18_OneItemPerImage ==
  (exOp = "media" /\ exPc = "done" /\ CardReached(exRead)) =>
    /\ Len(ImageItems(CacheDerived)) = Len(ReadCard.image_list)
    /\ \A i \in 1..Len(ReadCard.image_list) :
         /\ CacheDerived[i].type = "image"
         /\ CacheDerived[i].url = ClaimedImageUrl(ReadCard.image_list[i])
         /\ CacheDerived[i].filename =
              "image_" \o ToString(i) \o "." \o
                ClaimedExtension(ClaimedImageUrl(ReadCard.image_list[i]))
    /\ CacheDerived # <<>> => exMedia = CacheDerived

\* Two images, one with a WB_DFT variant that differs from url_default.
C18_Witness ==
  /\ exOp = "media" /\ exPc = "done" /\ CardReached(exRead)
  /\ Len(ReadCard.image_list) = 2
  /\ ClaimedImageUrl(ReadCard.image_list[1]) # ReadCard.image_list[1].url_default
  /\ exMedia = CacheDerived
  /\ exMedia[1].filename = "image_1.jpg" /\ exMedia[2].filename = "image_2.png"

ImageNames(i) == {"image_" \o ToString(i) \o "." \o e : e \in {"jpg", "png", "webp"}}

\* C19: in every list an extraction returned, the filenames are pairwise
\* distinct, the i-th image is named image_i, and at most one item is a
\* video, named video_1.
C19_DistinctFilenames ==
  (exOp = "media" /\ exPc = "done" /\ exOutcome = "returned") =>
    /\ \A i, j \in 1..Len(exMedia) :
         exMedia[i].filename = exMedia[j].filename => i = j
    /\ \A i \in 1..Len(ImageItems(exMedia)) :
         ImageItems(exMedia)[i].filename \in ImageNames(i)
    /\ Len(VideoItems(exMedia)) <= 1
    /\ \A i \in 1..Len(VideoItems(exMedia)) :
         VideoItems(exMedia)[i].filename = "video_1.mp4"

\* The document gave two images and a video.
C19_Witness ==
  /\ exOp = "media" /\ exPc = "done" /\ exOutcome = "returned"
  /\ exTried = <<"cache", "fetch", "dom">>
  /\ Len(ImageItems(exMedia)) = 2
  /\ Len(VideoItems(exMedia)) = 1

\* The list the fresh fetch derives for the running extraction.
FreshDerived ==
  IF attemptDirectFeedFetch(path) = Null THEN <<>>
  ELSE parseMediaFromFeed(attemptDirectFeedFetch(path), path)

\* C22: in one call of extractMediaFromPage the strategies start in the
\* order cache, fresh fetch, DOM, one at a time: the fetch has started only
\* when the cache-derived list is empty, the DOM wait only when the list of
\* the fetch is empty too, and a call that returned an accepted list has
\* started no strategy after the one that gave it.
C22_StrictOrder ==
  exOp = "media" =>
    /\ exTried \in {<<"cache">>, <<"cache", "fetch">>, <<"cache", "fetch", "dom">>}
    /\ Len(exTried) >= 2 => CacheDerived = <<>>
    /\ Len(exTried) >= 3 => FreshDerived = <<>>
    /\ exPc = "fetch" => exTried = <<"cache">>
    /\ exPc \in {"settle", "dom"} => exTried = <<"cache", "fetch", "dom">>
    /\ (exPc = "done" /\ exOutcome = "returned" /\ exTried = <<"cache">>) =>
         exMedia = CacheDerived /\ exMedia # <<>>
    /\ (exPc = "done" /\ exOutcome = "returned" /\ CacheDerived # <<>>) =>
         exTried = <<"cache">>

\* The DOM wait of a call whose cached payload gave no media.
C22_Witness ==
  /\ exOp = "media" /\ exPc = "settle"
  /\ exRead # NoFeed
  /\ exTried = <<"cache", "fetch", "dom">>

\* C24: the extractions only read the cache: after any of them the payload
\* of the content script, the order of its stream lists included, is the
\* one the last put stored.
C24_ExtractionReadOnly == cachedFeedData = lastPut

\* C29: waitForSelector makes a bounded number of polls, and the media
\* normalizer is entered only from the settle delay, whether a selector was
\* found or the wait gave up.
C29_SettleBeforeNormalizer ==
  [][/\ exPc = "wait" => ~PollsGiveUp(exPolls)
     /\ (exPc # "dom" /\ exPc' = "dom") => exPc = "settle"]_vars

---------------------------------------------------------------------------
(* The cache: the claims                                                   *)

\* C3: after two or more calls of setCachedFeedData in the content script,
\* a call of getCachedFeedData() returns the payload of the latest of them,
\* whatever writes or warm-up loads completed in between.
C3_LastWriteWins ==
  (syncRet.called /\ syncRet.puts >= 2) => syncRet.ret = syncRet.last

\* C4: a call of getCachedFeedDataAsync() that starts after a clearFeedCache,
\* itself sent after the latest put, has removed the keys, and during which
\* nothing is put, returns null.
C4_ClearThenAsyncNull ==
  (asyncPc = "returned" /\ asyncClean) => asyncRet = NoFeed

\* C5: a call of getCachedFeedData() in the content script, made after a
\* clearFeedCache sent after the latest put has completed, returns null.
C5_ClearEmptiesMemory ==
  (syncRet.called /\ syncRet.cleared) => syncRet.ret = NoFeed

\* C6: every message whose handlers have run to their end was answered
\* exactly once, and no message is ever answered twice.
C6_AnsweredExactlyOnce ==
  \A i \in 1..Len(msgs) :
    /\ Len(msgs[i].responses) <= 1
    /\ msgs[i].pc = "done" => Len(msgs[i].responses) = 1

\* No storage call and no handoff request is under way, and no message
\* waits for a handler.
Quiescent ==
  /\ csOps = <<>> /\ csLoads = <<>> /\ bgOps = <<>>
  /\ hoBg = "none" /\ hoPc \in {"idle", "done"}
  /\ \A i \in 1..Len(msgs) : msgs[i].pc = "done"

NoClearSent == \A i \in 1..Len(msgs) : msgs[i].action # "clearFeedCache"

Criterion(feed) == feed.success /\ feed.hasData /\ Len(feed.items) >= 1
Held(feed) == feed = NoFeed \/ Criterion(feed)

\* C25: every payload the cache holds, in the content script, in the store,
\* on its way to the store or handed over by the background script, meets
\* the criterion: a payload that does not is never cached.
C25_OnlyUsablePayloads ==
  /\ Held(cachedFeedData)
  /\ Held(StoredFeed(store))
  /\ Held(hoReply)
  /\ \A i \in 1..Len(csOps) : Held(csOps[i].data)
  /\ \A i \in 1..Len(csLoads) : Held(csLoads[i])

\* A message with a payload that fails the criterion has been handled and
\* the handoff has cached what the store held.
C25_Witness ==
  /\ \E i \in 1..Len(msgs) :
       /\ msgs[i].action \in DataActions
       /\ msgs[i].pc = "done"
       /\ ~Criterion(msgs[i].data)
  /\ hoAnswers = <<"success">>
  /\ cachedFeedData # NoFeed
  /\ StoredFeed(store) # NoFeed

\* C27: the handoff sends getFeedData at most twice, and only from a page
\* whose path has "/explore/": the second request is sent only when the
\* first was answered without success, once, after the delay of the timer;
\* after a successful or a rejected first request, and after the second
\* request, none is sent.
C27_AtMostOneRetry ==
  /\ hoRequests <= 2
  /\ ~IncludesExplore(path) => hoRequests = 0
  /\ hoRequests = 2 =>
       /\ Len(hoAnswers) >= 1
       /\ hoAnswers[1] = "failure"
       /\ hoWaited = RetryDelay
  /\ (Len(hoAnswers) >= 1 /\ hoAnswers[1] \in {"success", "rejected"}) =>
       hoRequests = 1 /\ hoPc = "done"
  /\ Len(hoAnswers) = 2 => hoPc = "done"
  /\ Len(hoAnswers) <= hoRequests

\* Both requests were answered without success.
C27_Witness ==
  /\ hoPc = "done"
  /\ hoRequests = 2
  /\ hoAnswers = <<"failure", "failure">>

\* C28: the store holds the key cachedFeedData iff it holds the key
\* feedDataTimestamp, under every interleaving of the writes of
\* setCachedFeedData and of the listener of feedDataIntercepted and of the
\* removal of clearFeedCache.
C28_KeysTogether == store.hasFeed <=> store.hasTs

\* A write has landed after a clearFeedCache was answered.
C28_Witness ==
  /\ store.hasFeed /\ store.hasTs
  /\ store.ts > 1
  /\ \E i \in 1..Len(msgs) : msgs[i].action = "clearFeedCache" /\ msgs[i].pc = "done"

\* C26: a call of getCachedFeedDataAsync() that has returned what the store
\* held has left the cache of its context equal to what it returned.
C26_AsyncLeavesCacheEqual ==
  asyncPc = "returned" => popupCache = asyncRet

---------------------------------------------------------------------------
(* Comments and exports: the claims                                        *)

\* C12: extractExtendedNoteContent returns null exactly when extractNoteContent
\* returned null to it; whatever the comment API and the document come to, a
\* call with base content ends with a value.
C12_NullIffBaseNull ==
  /\ cmPc = "done" => (cmRet = "null" <=> ~cmBase.found)
  /\ cmPc = "done" => cmRet \in {"null", "value"}
  /\ cmPc # "done" => cmRet = "none"

\* The comment API failed, the document has no comment, and the call still
\* returned a value.
C12_Witness ==
  /\ cmPc = "done" /\ cmRet = "value"
  /\ cmApi.kind = "http_error"
  /\ cmTried = <<"api", "dom">>
  /\ cmComments = <<>>

\* The list the comment API step of the call yielded.
ApiYield ==
  IF cmApi = NoApiCall THEN <<>> ELSE fetchCommentsDirectly(cmToken, cmApi)

\* C13: on every page on which base content was resolved, a call whose
\* comment API step yielded no non-empty list has run the DOM comment
\* extraction, and the comments of its result are what that returned.
C13_DomFallbackAlwaysRun ==
  (cmPc = "done" /\ cmBase.found /\ ApiYield = <<>>) =>
    /\ cmTried # <<>> /\ cmTried[Len(cmTried)] = "dom"
    /\ cmComments = extractCommentsFromDOM(cmDoc)

\* C14 as stated: a call that resolved base content issues no request of
\* the comment API when xsec_token is absent from the query parameters, and
\* exactly one when it is present.
C14_OneRequestIffToken ==
  (cmPc = "done" /\ cmBase.found) =>
    cmRequests = (IF cmToken = "absent" THEN 0 ELSE 1)

\* C14, amended: a call issues exactly one request of the comment API when
\* base content was resolved, the path of the page yields an identifier and
\* xsec_token is present and not empty, and none in every other case; a
\* failed request is not repeated, and the comments of the API are the
\* result only when the parsed list is not empty.
C14_OneRequestIffTokenAndId ==
  /\ cmRequests <= 1
  /\ cmPc = "done" =>
       /\ cmRequests =
            (IF cmBase.found /\ extractNoteId(path) # Null /\ cmToken = "value"
               THEN 1 ELSE 0)
       /\ cmTried = <<"api">> => (cmComments # <<>> /\ cmComments = ApiYield)
       /\ (cmRet = "value" /\ ApiYield # <<>>) => cmComments = ApiYield

\* A request that failed was not repeated, and one whose list was not empty
\* was accepted: here the first.
C14_Witness ==
  /\ cmPc = "done" /\ cmRet = "value"
  /\ cmToken = "value"
  /\ cmRequests = 1
  /\ cmApi.kind = "network_error"
  /\ cmTried = <<"api", "dom">>

\* C15: the ids of the comments of one result are pairwise distinct.
C15_DistinctCommentIds ==
  (cmPc = "done" /\ cmRet = "value") =>
    \A i, j \in 1..Len(cmComments) :
      cmComments[i].id = cmComments[j].id => i = j

\* The replies of the comments before the i-th.
RECURSIVE RepliesBefore(_, _)
RepliesBefore(comments, i) ==
  IF i <= 1 THEN 0
  ELSE Len(comments[i - 1].replies) + RepliesBefore(comments, i - 1)

\* Where the entry of the i-th comment stands in an export.
EntryOf(comments, i) == i + RepliesBefore(comments, i)

\* An export has, in order, one entry for each comment and, after it, one
\* for each of its replies, and nothing else.
HoldsAll(entries, comments) ==
  /\ Len(entries) = Len(comments) + RepliesBefore(comments, Len(comments) + 1)
  /\ \A i \in 1..Len(comments) :
       /\ entries[EntryOf(comments, i)].kind = "comment"
       /\ entries[EntryOf(comments, i)].author = comments[i].author
       /\ entries[EntryOf(comments, i)].content = comments[i].content
       /\ \A j \in 1..Len(comments[i].replies) :
            /\ entries[EntryOf(comments, i) + j].kind = "reply"
            /\ entries[EntryOf(comments, i) + j].author = comments[i].replies[j].author
            /\ entries[EntryOf(comments, i) + j].content = comments[i].replies[j].content

\* C20: for an extended content with well-typed comments, the text report
\* and the JSON dump each hold, in order, one entry for every comment and
\* one for every reply under it, however many there are; the preview alone
\* stops after the first 3 comments.
C20_ExportsHoldEveryComment ==
  /\ xpReport.done =>
       /\ HoldsAll(xpReport.entries, cmComments)
       /\ \A i \in 1..Len(cmComments) :
            xpReport.entries[EntryOf(cmComments, i)].n = i
  /\ xpJson.done =>
       /\ HoldsAll(xpJson.entries, cmComments)
       /\ \A i \in 1..Len(cmComments) :
            xpJson.entries[EntryOf(cmComments, i)].id = cmComments[i].id
  /\ xpPreview.done =>
       /\ Len(xpPreview.entries) <= PreviewLimit
       /\ Len(xpPreview.entries) <= Len(cmComments)
       /\ Len(xpPreview.entries) = PreviewLimit \/ Len(xpPreview.entries) = Len(cmComments)
       /\ \A i \in 1..Len(xpPreview.entries) : xpPreview.entries[i] = cmComments[i]

\* More comments than the preview shows, the last of them with replies, and
\* both exports and the preview made.
C20_Witness ==
  /\ xpReport.done /\ xpJson.done /\ xpPreview.done
  /\ Len(cmComments) > PreviewLimit
  /\ Len(cmComments[Len(cmComments)].replies) > 1
  /\ Len(cmComments[1].replies) > 0
  /\ Len(xpPreview.entries) = PreviewLimit
  /\ Len(xpReport.entries) > Len(cmComments)

NoRepeat(tried) ==
  \A i, j \in 1..Len(tried) : tried[i] = tried[j] => i = j

\* C23: in one call of extractMediaFromPage, extractNoteContent or
\* extractExtendedNoteContent no source is attempted twice: the strategies a
\* call has started are distinct, and an extended extraction sends the
\* comment API at most one request and runs the DOM comment extraction at
\* most once.
C23_EachSourceOnce ==
  /\ NoRepeat(exTried)
  /\ exOp = "media" => \A i \in 1..Len(exTried) : exTried[i] \in {"cache", "fetch", "dom"}
  /\ exOp = "note" => exTried \in {<<>>, <<"cache">>, <<"cache", "dom">>}
  /\ NoRepeat(cmTried)
  /\ \A i \in 1..Len(cmTried) : cmTried[i] \in {"api", "dom"}
  /\ cmRequests <= 1
  /\ cmRequests = 1 => (Len(cmTried) > 0 /\ cmTried[1] = "api")

\* A media extraction and an extended extraction that both went through all
\* their sources.
C23_Witness ==
  /\ exOp = "media" /\ exTried = <<"cache", "fetch", "dom">> /\ exPc = "done"
  /\ cmPc = "done" /\ cmTried = <<"api", "dom">> /\ cmRequests = 1

---------------------------------------------------------------------------
(* The fetch override: the claims                                          *)

\* C30: for every call of fetch of the page, feed url or not, JSON body or
\* not, the override calls originalFetch exactly once, the page gets the
\* response of that call with its body unread, or its error, and at most
\* one event is dispatched.
C30_TransparentFetch ==
  /\ ftPc = "done" =>
       /\ ftRequests = 1
       /\ ftEvents <= 1
       /\ ftResult.kind \in {"response", "error"}
       /\ ftResult.request = 1
       /\ ~ftResult.bodyUsed
  /\ \A i \in 1..Len(ftLog) : ftLog[i].requests = 1 /\ ftLog[i].events <= 1

---------------------------------------------------------------------------
(* Packaging: the claims                                                   *)

\* The names of the media entries the archive must hold: those of the items
\* whose fetch came to "ok".
FetchedOkNames ==
  {zipItems[i].filename : i \in {j \in 1..Len(zipFetched) : zipFetched[j] = "ok"}}

ExpectedContentEntries ==
  IF HasContent(zipExtended, zipNote) THEN {ContentEntry(zipExtended)} ELSE {}

\* C7: packaging has partial-success semantics. When the archive is about to
\* be finalized, and after, every media item has been attempted, a failed
\* fetch has not stopped the loop, and the archive holds exactly the items
\* whose fetch succeeded, plus the text entry when content was supplied.
C7_PartialSuccess ==
  zipPc \in {"generate", "done"} =>
    /\ Len(zipFetched) = Len(zipItems)
    /\ zipFiles = FetchedOkNames \cup ExpectedContentEntries

\* Three items, the second failing: two media entries in a finalized archive.
C7_Witness ==
  /\ zipPc = "done"
  /\ zipRet = "true"
  /\ Len(zipItems) = 3
  /\ zipFetched[1] = "ok" /\ zipFetched[2] = "http_error" /\ zipFetched[3] = "ok"
  /\ Cardinality(zipFiles \ ExpectedContentEntries) = 2

NoErrorReported ==
  \A i \in 1..Len(zipProgress) : zipProgress[i].status # "error"

\* C8: in a call that ends successfully (no error callback), every progress
\* callback has total = number of media items + 1 if content was supplied,
\* current never decreases and never exceeds total, and the last callback of
\* the finished call has current = total, whatever fetches failed.
C8_ProgressMonotone ==
  (zipPc # "idle" /\ NoErrorReported) =>
    /\ \A i \in 1..Len(zipProgress) :
         /\ zipProgress[i].total =
              Len(zipItems) + (IF zipExtended \/ zipNote THEN 1 ELSE 0)
         /\ zipProgress[i].current <= zipProgress[i].total
    /\ \A i \in 1..(Len(zipProgress) - 1) :
         zipProgress[i].current <= zipProgress[i + 1].current
    /\ zipPc = "done" =>
         zipProgress[Len(zipProgress)].current = zipProgress[Len(zipProgress)].total

\* A successful call with content in which some fetch failed.
C8_Witness ==
  /\ zipPc = "done"
  /\ zipRet = "true"
  /\ zipExtended
  /\ \E i \in 1..Len(zipFetched) : zipFetched[i] # "ok"
  /\ \E i \in 1..Len(zipFetched) : zipFetched[i] = "ok"

Terminal(p) == p.status \in {"complete", "error"}

\* C9: a finished call has exactly one terminal callback, the last one:
\* "complete" with current = total and the call returning true, or "error"
\* with current 0, total 0 and the call returning false; a call that still
\* runs has reported no terminal callback, so "complete" is never followed
\* by "error" or "downloading".
C9_OneTerminalCallback ==
  /\ zipPc \in {"loop", "content", "generate"} =>
       \A i \in 1..Len(zipProgress) : ~Terminal(zipProgress[i])
  /\ zipPc = "done" =>
       LET n == Len(zipProgress)
           last == zipProgress[n]
       IN  /\ n >= 1
           /\ Terminal(last)
           /\ \A i \in 1..(n - 1) : ~Terminal(zipProgress[i])
           /\ last.status = "complete" =>
                (last.current = last.total /\ last.total = zipTotal /\ zipRet = "true")
           /\ last.status = "error" =>
                (last.current = 0 /\ last.total = 0 /\ zipRet = "false")
           /\ zipRet = "true" => last.status = "complete"
           /\ zipRet = "false" => last.status = "error"

\* Both ends happen: a failed finalization after successful fetches, and a
\* successful call in which a fetch failed.
C9_Witness ==
  /\ zipPc = "done"
  /\ zipRet = "false"
  /\ zipCurrent > 0
  /\ zipProgress[Len(zipProgress)] = ErrorProgress

===========================================================================
